---- MODULE Spec2Model ----
(***************************************************************************)
(* A model of one 'eks-cli-stream' WebSocket session of                    *)
(* websocket/kubernetesWsHandlers.js: the inbound-message handler (create  *)
(* and delete commands), the handlers attached to the spawned eksctl       *)
(* child process, the post-creation steps, and the socket's close and      *)
(* error handlers, all sharing the connection's two closure variables      *)
(* eksProcess and eksProcessExited; a second connection of the same kind   *)
(* (TwoSpec); and the two port-forward routes of routes/kubernetesRoutes.js *)
(* around the process-wide handle app.locals.portForwardProcess (PfSpec).  *)
(* The helpers of utils/cache.js (CacheSpec) and of utils/kubectlUtils.js   *)
(* (ExecSpec, RetrySpec, ParseSpec) follow, each under a specification of   *)
(* its own, and then the configuration generator of                        *)
(* utils/eksConfigGenerator.js (ConfigSpec), a cache-fronted list endpoint  *)
(* with the endpoints that change what it lists (RouteSpec) and the         *)
(* clear-credentials endpoint (CredsSpec) of routes/kubernetesRoutes.js.    *)
(*                                                                         *)
(* Node runs every handler to its next await without interleaving, so one  *)
(* action is one handler run from an event to the next await or return.    *)
(***************************************************************************)
EXTENDS Integers, Sequences, FiniteSets, TLC

\* The number of inbound messages the sockets receive in a run.
MaxMsgs == 2

\* The number of port-forward requests (start or stop) in a run.
MaxReqs == 3

VARIABLES
    wsState,          \* ws.readyState: "OPEN", "CLOSING" or "CLOSED"
    sendThrows,       \* whether ws.send on a socket that is not OPEN throws
                      \* (older releases of the ws package) or drops the frame
    eksProcess,       \* the tracked child: the index of its command, 0 = null
    eksProcessExited, \* the closure flag eksProcessExited
    cmds,             \* one record per inbound message, in arrival order
    sent,             \* the frames sent on the open socket, oldest first,
                      \* a run of consecutive log frames kept as one
    badSend,          \* ws.send was called while the socket was not OPEN
    escaped,          \* an exception left an async handler uncaught
    parked,           \* the other connection: its socket, closure variables,
                      \* commands and frames, while the handlers of this
                      \* connection run
    pfHandle,         \* app.locals.portForwardProcess: the index of the
                      \* request that spawned the process, 0 = null
    pfReqs,           \* one record per port-forward request, in arrival order
    pfSeen,           \* the processes one of whose stdout chunks contained
                      \* 'Forwarding from'
    pfKills,          \* the kill('SIGTERM') calls, oldest first: the stop
                      \* request that made the call and the process signalled
    cache,            \* utils/cache.js: the object cache, key -> entry
    now,              \* Date.now()
    got,              \* the last getCachedData call and what it returned
    fn,               \* which of execPromise and executeCommand was called
    childProcess,     \* the child the call spawned and its terminal events
    stdoutBuffer,     \* stdoutBuffer of execPromise, output of executeCommand
    stderrBuffer,     \* stderrBuffer of execPromise, errorOutput of
                      \* executeCommand
    promise,          \* the promise the call returned
    sink,             \* the socket handed to executeCommand and the frames
                      \* sent on it
    retry,            \* one call of executeCommandWithRetry
    parsed,           \* the last parseAndHandleJson call and its outcome
    generated,        \* a create payload, the cluster name the handler
                      \* derives from it and the configuration generated
    route,            \* the pods of the cluster and the requests to the pod
                      \* endpoints
    creds             \* one request to POST /eks-clear-credentials and the
                      \* AWS configuration it works on

\* The variables of the port-forward routes.
pfVars == <<pfHandle, pfReqs, pfSeen, pfKills>>

\* The variables of utils/cache.js.
cacheVars == <<cache, now, got>>

\* The variables of one execPromise or executeCommand call.
execVars ==
    <<fn, childProcess, stdoutBuffer, stderrBuffer, promise, sink>>

\* The variables of the helper modules under utils/.
utilVars == <<cacheVars, execVars, retry, parsed, generated, route, creds>>

vars == <<wsState, sendThrows, eksProcess, eksProcessExited, cmds, sent,
          badSend, escaped, parked, pfHandle, pfReqs, pfSeen, pfKills,
          cache, now, got, fn, childProcess, stdoutBuffer, stderrBuffer,
          promise, sink, retry, parsed, generated, route, creds>>

Kinds == {"create", "delete", "malformed", "unknown"}

LogFrame == [type |-> "log", cmd |-> 0]

Frame(t, m) == [type |-> t, cmd |-> m]

\* The error frame of a 'close' listener, whose message names the exit code.
ExitError(m, code) == [type |-> "error", cmd |-> m, code |-> code]

\* ws.send on an OPEN socket: the frame goes out.
Push(s, f) ==
    IF f.type = "log" /\ Len(s) > 0 /\ s[Len(s)].type = "log"
    THEN s
    ELSE Append(s, f)

\* The record of a message as it arrives.
\* pc is where the command's handler stands; proc and attached are the state
\* of the eksctl child it spawned and whether the child still has its
\* listeners.  pre, ex, code and alb record what the handler was given: the
\* outcome of the pre-flight check and of the existence check, the child's
\* exit code, and payload.albIngressAccess, which the handler reads once,
\* after the storage-class step, and which is drawn at that read.  albFail
\* tells that a sub-step of the ALB setup failed.
NewCmd(kind) ==
    [kind |-> kind, pc |-> "new", proc |-> "none", attached |-> FALSE,
     pre |-> "none", ex |-> "none", code |-> -1, alb |-> "unread",
     albFail |-> FALSE]

Step(cs, m, pc) == [cs EXCEPT ![m].pc = pc]

\* A mutation of the cleanup: the listeners are removed but no signal is sent.
CleanupNoKill(cs, ep, exited) ==
    IF ep = 0 THEN cs ELSE [cs EXCEPT ![ep].attached = FALSE]

\* cleanupEksProcessResources: the effect on the children of removing the
\* tracked child's listeners and killing it unless the flag says it exited.
\* The caller sets eksProcess to 0.
Cleanup(cs, ep, exited) ==
    IF ep = 0
    THEN cs
    ELSE [cs EXCEPT ![ep].attached = FALSE,
                    ![ep].proc =
                      IF ~exited /\ @ = "running" THEN "killed" ELSE @]

\* A connection as handleKubernetesWebSocketConnection leaves it.
NewSession ==
    [wsState |-> "OPEN", eksProcess |-> 0, eksProcessExited |-> FALSE,
     cmds |-> << >>, sent |-> << >>]

\* const cache = {}: no key.
NoEntries == [k \in {} |-> 0]

\* The value getCachedData returns for 'absent'.
Null == "null"

\* No getCachedData call was made yet.
NoRead ==
    [key |-> "", ttl |-> 0, forceRefresh |-> "undefined", result |-> Null,
     odd |-> FALSE]

\* No child was spawned yet.
NoChild == [spawns |-> 0, events |-> << >>]

\* A promise that is not settled.
Pending == [state |-> "pending", value |-> << >>]

\* The socket handed to executeCommand, OPEN, with no frame sent.
NewSink == [open |-> TRUE, frames |-> << >>]

\* executeCommandWithRetry was not called yet.
NoRetry ==
    [pc |-> "idle", retries |-> 0, i |-> 0, open |-> TRUE, results |-> << >>,
     notices |-> 0, delays |-> 0, result |-> [success |-> FALSE]]

\* parseAndHandleJson was not called yet.
NoParse ==
    [jsonString |-> << >>, context |-> "undefined",
     outcome |-> [ok |-> FALSE, value |-> << >>, error |-> "not called",
                  context |-> ""]]

\* No create payload was handled yet.
NoConfig ==
    [called |-> FALSE, payload |-> << >>, clusterName |-> << >>,
     yamlConfig |-> << >>]

\* The pods of the two namespaces as the server starts, and no request.
NoRequests ==
    [pods |-> [ns \in {"default", "dev"} |-> "v1"], reqs |-> << >>]

\* The four settings are set and no clear request was made.
NoClear ==
    [pc |-> "idle", i |-> 1, errorMessages |-> << >>, cleared |-> {},
     status |-> 0]

Init ==
    /\ wsState = "OPEN"
    /\ sendThrows \in BOOLEAN
    /\ eksProcess = 0
    /\ eksProcessExited = FALSE
    /\ cmds = << >>
    /\ sent = << >>
    /\ badSend = FALSE
    /\ escaped = FALSE
    /\ parked = NewSession
    /\ pfHandle = 0
    /\ pfReqs = << >>
    /\ pfSeen = {}
    /\ pfKills = << >>
    /\ cache = NoEntries
    /\ now = 0
    /\ got = NoRead
    /\ fn = "none"
    /\ childProcess = NoChild
    /\ stdoutBuffer = << >>
    /\ stderrBuffer = << >>
    /\ promise = Pending
    /\ sink = NewSink
    /\ retry = NoRetry
    /\ parsed = NoParse
    /\ generated = NoConfig
    /\ route = NoRequests
    /\ creds = NoClear

\* A mutation of the declarations: eksProcess and eksProcessExited declared
\* at module level, one pair for every connection.
OtherSessionsShareChild ==
    parked' = [parked EXCEPT !.eksProcess = eksProcess',
                             !.eksProcessExited = eksProcessExited']

\* eksProcess and eksProcessExited are declared inside the branch that
\* handles one connection: the handlers of a connection have no name for
\* the variables, the socket or the children of another one.
OtherSessions == UNCHANGED parked

\* What a handler of the session leaves alone.
Elsewhere == OtherSessions /\ UNCHANGED <<pfVars, utilVars>>

Open == wsState = "OPEN"

\* ws.close(): an OPEN socket starts closing; otherwise nothing changes.
CloseSocket(st) == IF st = "OPEN" THEN "CLOSING" ELSE st

\* The abort sequence of the create branch, the same at each of its five
\* places: ws.send of an error frame, ws.close(), cleanupEksProcessResources(),
\* return.  The send is not guarded by readyState: where ws.send throws on a
\* socket that is not OPEN, the exception (from inside a try, after a second
\* throwing send in its catch) reaches the outer catch, which does nothing on
\* such a socket, so neither ws.close() nor the cleanup runs.
AbortWithError(m, cs) ==
    LET done == [cs EXCEPT ![m].pc = "aborted"] IN
    /\ UNCHANGED <<sendThrows, eksProcessExited, escaped>>
    /\ IF Open
       THEN /\ sent' = Push(sent, Frame("error", m))
            /\ wsState' = CloseSocket(wsState)
            /\ cmds' = Cleanup(done, eksProcess, eksProcessExited)
            /\ eksProcess' = 0
            /\ UNCHANGED badSend
       ELSE /\ badSend' = TRUE
            /\ UNCHANGED <<sent, wsState>>
            /\ IF sendThrows
               THEN cmds' = done /\ UNCHANGED eksProcess
               ELSE /\ cmds' = Cleanup(done, eksProcess, eksProcessExited)
                    /\ eksProcess' = 0

\* A log frame sent without a readyState check, after which the handler goes
\* on with `next`; where the send throws, the create branch is left through
\* the outer catch.
UnguardedLogThen(m, next, thrown) ==
    /\ UNCHANGED <<wsState, sendThrows, eksProcessExited, escaped>>
    /\ IF Open
       THEN /\ sent' = Push(sent, LogFrame)
            /\ UNCHANGED badSend
       ELSE /\ badSend' = TRUE
            /\ UNCHANGED sent
    /\ cmds' = IF Open \/ ~sendThrows THEN next ELSE thrown

\* spawn('eksctl', ...) and the four listeners: the new child becomes the
\* tracked one.  Nothing is done about a child tracked before, and
\* eksProcessExited keeps its value.
Spawn(cs, m) ==
    [Step(cs, m, "running") EXCEPT ![m].proc = "running",
                                            ![m].attached = TRUE]

\* commandType 'create' up to the first await.
CreateStart(m, cs) ==
    /\ UnguardedLogThen(m, Step(cs, m, "identity"),
                        [cs EXCEPT ![m].pc = "aborted"])
    /\ UNCHANGED eksProcess

\* commandType 'delete': the whole branch runs without an await.
DeleteStart(m, cs) ==
    /\ cmds' = Spawn(cs, m)
    /\ eksProcess' = m
    /\ UNCHANGED <<wsState, sendThrows, eksProcessExited, sent, badSend,
                   escaped>>

\* The outer catch: JSON.parse failed, or the payload is missing.
MalformedMessage(m, cs) ==
    /\ cmds' = [cs EXCEPT ![m].pc = "done"]
    /\ sent' = IF Open THEN Push(sent, Frame("error", m)) ELSE sent
    /\ wsState' = CloseSocket(wsState)
    /\ UNCHANGED <<sendThrows, eksProcess, eksProcessExited, badSend, escaped>>

\* A commandType that is neither 'create' nor 'delete': no branch is taken.
UnknownCommand(m, cs) ==
    /\ cmds' = [cs EXCEPT ![m].pc = "done"]
    /\ UNCHANGED <<wsState, sendThrows, eksProcess, eksProcessExited, sent,
                   badSend, escaped>>

\* ws.on('message').  The ws package delivers messages while the socket is
\* OPEN and, after the server's own ws.close(), until the peer's close frame.
Message(kind) ==
    /\ wsState \in {"OPEN", "CLOSING"}
    /\ Len(cmds) + Len(parked.cmds) < MaxMsgs
    /\ LET m  == Len(cmds) + 1
           cs == Append(cmds, NewCmd(kind))
       IN  CASE kind = "create"    -> CreateStart(m, cs)
             [] kind = "delete"    -> DeleteStart(m, cs)
             [] kind = "malformed" -> MalformedMessage(m, cs)
             [] kind = "unknown"   -> UnknownCommand(m, cs)

\* 'aws sts get-caller-identity' settles.
IdentityDone(m, ok) ==
    /\ cmds[m].pc = "identity"
    /\ IF ok
       THEN /\ cmds' = Step(cmds, m, "simulate")
            /\ UNCHANGED <<wsState, sendThrows, eksProcess, eksProcessExited,
                           sent, badSend, escaped>>
       ELSE AbortWithError(m, [cmds EXCEPT ![m].pre = "fail"])

\* A mutation of the pre-flight check: only an explicit denial fails it, so a
\* decision that is merely not 'allowed' lets the command go on.
SimulateDoneDeniedProceeds(m, res) ==
    /\ cmds[m].pc = "simulate"
    /\ IF res \in {"allowed", "denied"}
       THEN /\ UnguardedLogThen(m,
                   Step([cmds EXCEPT ![m].pre =
                            IF res = "allowed" THEN "pass" ELSE "fail"],
                        m, "exists"),
                   [cmds EXCEPT ![m].pre =
                            IF res = "allowed" THEN "pass" ELSE "fail",
                                ![m].pc = "aborted"])
            /\ UNCHANGED eksProcess
       ELSE AbortWithError(m, [cmds EXCEPT ![m].pre = "fail"])

\* A mutation of the create branch: the existence check is not awaited, and
\* the creation subprocess is spawned as soon as the pre-flight check passes.
SimulateDoneSpawnsAtOnce(m, res) ==
    /\ cmds[m].pc = "simulate"
    /\ IF res = "allowed"
       THEN /\ UnguardedLogThen(m,
                   Spawn([cmds EXCEPT ![m].pre = "pass"], m),
                   [cmds EXCEPT ![m].pre = "pass", ![m].pc = "aborted"])
            /\ eksProcess' = IF Open \/ ~sendThrows THEN m ELSE eksProcess
       ELSE AbortWithError(m, [cmds EXCEPT ![m].pre = "fail"])

\* 'aws iam simulate-principal-policy' settles: every action allowed, some
\* action not allowed, or the call or the parsing of its output failed.
SimulateDone(m, res) ==
    /\ cmds[m].pc = "simulate"
    /\ IF res = "allowed"
       THEN /\ UnguardedLogThen(m,
                   Step([cmds EXCEPT ![m].pre = "pass"], m, "exists"),
                   [cmds EXCEPT ![m].pre = "pass", ![m].pc = "aborted"])
            /\ UNCHANGED eksProcess
       ELSE AbortWithError(m, [cmds EXCEPT ![m].pre = "fail"])

\* executeCommand streams a chunk of 'eksctl get cluster' output.
ExistsOutput(m) ==
    /\ cmds[m].pc = "exists"
    /\ Open
    /\ sent' = Push(sent, LogFrame)
    /\ UNCHANGED <<wsState, sendThrows, eksProcess, eksProcessExited, cmds,
                   badSend, escaped>>

\* A mutation of the existence check: every failed lookup counts as 'the
\* cluster does not exist'.
ExistsDoneAnyErrorProceeds(m, res) ==
    /\ cmds[m].pc = "exists"
    /\ LET cs == [cmds EXCEPT ![m].ex = res] IN
       IF res \in {"notfound", "other"}
       THEN /\ UnguardedLogThen(m, Spawn(cs, m),
                                [cs EXCEPT ![m].pc = "aborted"])
            /\ eksProcess' = IF Open \/ ~sendThrows THEN m ELSE eksProcess
       ELSE AbortWithError(m, cs)

\* 'eksctl get cluster' settles: success (the cluster exists), an error that
\* contains 'ResourceNotFoundException', or any other error.
ExistsDone(m, res) ==
    /\ cmds[m].pc = "exists"
    /\ LET cs == [cmds EXCEPT ![m].ex = res] IN
       IF res = "notfound"
       THEN /\ UnguardedLogThen(m, Spawn(cs, m),
                                [cs EXCEPT ![m].pc = "aborted"])
            /\ eksProcess' = IF Open \/ ~sendThrows THEN m ELSE eksProcess
       ELSE AbortWithError(m, cs)

\* A stdout or stderr chunk of the eksctl child reaches its 'data' listener,
\* which sends it only while the socket is OPEN.
ChildOutput(m) ==
    /\ cmds[m].proc = "running"
    /\ cmds[m].attached
    /\ Open
    /\ sent' = Push(sent, LogFrame)
    /\ UNCHANGED <<wsState, sendThrows, eksProcess, eksProcessExited, cmds,
                   badSend, escaped>>

\* The terminal part shared by the 'close' listeners of both branches once
\* the outcome is known: the frame (the caller found the socket OPEN), the
\* one-second timer that will close the socket, then the cleanup.
FinishOpen(m, cs, frame, exited) ==
    /\ sent' = Push(sent, frame)
    /\ cmds' = Cleanup(Step(cs, m, "grace"), eksProcess, exited)
    /\ eksProcess' = 0

\* The 'close' listener found the socket not OPEN: only the cleanup runs.
FinishClosed(m, cs, exited) ==
    /\ cmds' = Cleanup([cs EXCEPT ![m].pc = "done"], eksProcess, exited)
    /\ eksProcess' = 0
    /\ UNCHANGED sent

\* A mutation of the create branch's 'close' listener: the exit code is not
\* looked at and the post-creation steps start after a failed creation too.
CreateOnCloseIgnoresCode(m, cs, code) ==
    /\ eksProcessExited' = TRUE
    /\ UNCHANGED <<wsState, sendThrows, badSend, escaped>>
    /\ IF Open
       THEN /\ cmds' = Step(cs, m, "storage")
            /\ UNCHANGED <<sent, eksProcess>>
       ELSE FinishClosed(m, cs, TRUE)

\* eksProcess.on('close') of the create branch, up to its first await.
CreateOnClose(m, cs, code) ==
    /\ eksProcessExited' = TRUE
    /\ UNCHANGED <<wsState, sendThrows, badSend, escaped>>
    /\ IF Open
       THEN IF code = 0
            THEN /\ cmds' = Step(cs, m, "storage")
                 /\ UNCHANGED <<sent, eksProcess>>
            ELSE FinishOpen(m, cs, ExitError(m, code), TRUE)
       ELSE FinishClosed(m, cs, TRUE)

\* A mutation of the delete branch's 'close' listener: a nonzero exit code is
\* not reported and no timer is set.
DeleteOnCloseDropsFailure(m, cs, code) ==
    /\ eksProcessExited' = TRUE
    /\ UNCHANGED <<wsState, sendThrows, badSend, escaped>>
    /\ IF Open /\ code = 0
       THEN FinishOpen(m, cs, Frame("complete", m), TRUE)
       ELSE FinishClosed(m, cs, TRUE)

\* A mutation of the delete branch's 'close' listener: the exit code is not
\* looked at and every exit is reported as a success.
DeleteOnCloseAlwaysComplete(m, cs, code) ==
    /\ eksProcessExited' = TRUE
    /\ UNCHANGED <<wsState, sendThrows, badSend, escaped>>
    /\ IF Open
       THEN FinishOpen(m, cs, Frame("complete", m), TRUE)
       ELSE FinishClosed(m, cs, TRUE)

\* eksProcess.on('close') of the delete branch.
DeleteOnClose(m, cs, code) ==
    /\ eksProcessExited' = TRUE
    /\ UNCHANGED <<wsState, sendThrows, badSend, escaped>>
    /\ IF Open
       THEN FinishOpen(m, cs, IF code = 0 THEN Frame("complete", m)
                                          ELSE ExitError(m, code), TRUE)
       ELSE FinishClosed(m, cs, TRUE)

\* eksProcess.on('error'), the same in both branches.
OnError(m, cs) ==
    /\ eksProcessExited' = TRUE
    /\ sent' = IF Open THEN Push(sent, Frame("error", m)) ELSE sent
    /\ wsState' = CloseSocket(wsState)
    /\ cmds' = Cleanup([cs EXCEPT ![m].pc = "done"], eksProcess, TRUE)
    /\ eksProcess' = 0
    /\ UNCHANGED <<sendThrows, badSend, escaped>>

\* The child fails to spawn: Node emits 'error' and, after it, 'close'.
ChildError(m) ==
    /\ cmds[m].proc = "running"
    /\ LET cs == [cmds EXCEPT ![m].proc = "failed"] IN
       IF cmds[m].attached
       THEN OnError(m, cs)
       ELSE /\ cmds' = cs
            /\ UNCHANGED <<wsState, sendThrows, eksProcess, eksProcessExited,
                           sent, badSend, escaped>>

\* The child's 'close' event: it exited with `code`, or it had failed to
\* spawn.  A child without listeners ends unnoticed.
ChildClose(m, code) ==
    /\ cmds[m].proc \in {"running", "failed"}
    /\ cmds[m].proc = "failed" => code # 0
    /\ LET cs == [cmds EXCEPT ![m].proc = "exited", ![m].code = code] IN
       IF cmds[m].attached
       THEN IF cmds[m].kind = "create"
            THEN CreateOnClose(m, cs, code)
            ELSE DeleteOnClose(m, cs, code)
       ELSE /\ cmds' = cs
            /\ UNCHANGED <<wsState, sendThrows, eksProcess, eksProcessExited,
                           sent, badSend, escaped>>

\* The sub-steps of the ALB controller setup, in the order of the source.
AlbSteps == {"certmgr", "policy", "iamsa", "manifest"}

PostSteps == {"storage"} \cup AlbSteps

AlbNext(step) ==
    CASE step = "certmgr" -> "policy"
      [] step = "policy"  -> "iamsa"
      [] step = "iamsa"   -> "manifest"

\* What the handler can see of a sub-step: installCertManager and
\* createAlbIamServiceAccount return a flag that is tested, the other two
\* are only awaited; each may throw into the try around the ALB setup.
AlbOutcomes(step) ==
    IF step \in {"certmgr", "iamsa"}
    THEN {"ok", "fail", "throw"}
    ELSE {"ok", "throw"}

\* How applyDefaultStorageClass ends: it has applied the storage class, or
\* it has logged that it could not; either way its promise resolves.
StorageOutcomes == {"ok", "fail"}

\* The end of the ALB part (or its absence): the warning logged on a failed
\* sub-step, if any, and the log that announces the wait, none of them
\* guarded by readyState, then the 15 s timer.  The handler is an async
\* listener: an exception thrown here is caught by nothing.
EnterDelay(m, cs) ==
    /\ UNCHANGED <<wsState, sendThrows, eksProcess, eksProcessExited>>
    /\ IF Open
       THEN /\ sent' = Push(sent, LogFrame)
            /\ cmds' = Step(cs, m, "delay")
            /\ UNCHANGED <<badSend, escaped>>
       ELSE /\ badSend' = TRUE
            /\ UNCHANGED sent
            /\ IF sendThrows
               THEN /\ cmds' = Step(cs, m, "crashed")
                    /\ escaped' = TRUE
               ELSE /\ cmds' = Step(cs, m, "delay")
                    /\ UNCHANGED escaped

\* A mutation of the post-creation steps: the ALB setup runs whatever the
\* flag says.
StorageDoneIgnoresFlag(m, r, alb) ==
    /\ cmds[m].pc = "storage"
    /\ cmds' = [Step(cmds, m, "certmgr") EXCEPT
                   ![m].alb = IF alb THEN "set" ELSE "unset"]
    /\ UNCHANGED <<wsState, sendThrows, eksProcess, eksProcessExited,
                   sent, badSend, escaped>>

\* applyDefaultStorageClass settles, having applied the storage class or
\* not (r; the handler does not look at what it returns), and the handler
\* reads payload.albIngressAccess.
StorageDone(m, r, alb) ==
    /\ cmds[m].pc = "storage"
    /\ IF alb
       THEN /\ cmds' = [Step(cmds, m, "certmgr") EXCEPT ![m].alb = "set"]
            /\ UNCHANGED <<wsState, sendThrows, eksProcess, eksProcessExited,
                           sent, badSend, escaped>>
       ELSE EnterDelay(m, [cmds EXCEPT ![m].alb = "unset"])

\* A mutation of the ALB setup: the flag a sub-step returns is not tested, so
\* the next sub-step starts after a false result.
AlbStepDoneIgnoresResult(m, r) ==
    /\ cmds[m].pc \in AlbSteps
    /\ r \in AlbOutcomes(cmds[m].pc)
    /\ IF r \in {"ok", "fail"} /\ cmds[m].pc # "manifest"
       THEN /\ cmds' = [Step(cmds, m, AlbNext(cmds[m].pc)) EXCEPT
                          ![m].albFail = (r # "ok")]
            /\ UNCHANGED <<wsState, sendThrows, eksProcess, eksProcessExited,
                           sent, badSend, escaped>>
       ELSE EnterDelay(m, [cmds EXCEPT ![m].albFail = (r # "ok")])

\* A mutation of the ALB setup without its try: a sub-step that throws ends
\* the command with an error frame.
AlbStepDoneThrowAborts(m, r) ==
    /\ cmds[m].pc \in AlbSteps
    /\ r \in AlbOutcomes(cmds[m].pc)
    /\ IF r = "ok" /\ cmds[m].pc # "manifest"
       THEN /\ cmds' = Step(cmds, m, AlbNext(cmds[m].pc))
            /\ UNCHANGED <<wsState, sendThrows, eksProcess, eksProcessExited,
                           sent, badSend, escaped>>
       ELSE IF r = "throw"
            THEN AbortWithError(m, [cmds EXCEPT ![m].albFail = TRUE])
            ELSE EnterDelay(m, [cmds EXCEPT ![m].albFail = (r # "ok")])

\* One sub-step of the ALB setup settles with outcome r.
AlbStepDone(m, r) ==
    /\ cmds[m].pc \in AlbSteps
    /\ r \in AlbOutcomes(cmds[m].pc)
    /\ IF r = "ok" /\ cmds[m].pc # "manifest"
       THEN /\ cmds' = Step(cmds, m, AlbNext(cmds[m].pc))
            /\ UNCHANGED <<wsState, sendThrows, eksProcess, eksProcessExited,
                           sent, badSend, escaped>>
       ELSE EnterDelay(m, [cmds EXCEPT ![m].albFail = (r # "ok")])

\* A post-creation step logs its progress on the socket while it is OPEN.
StepOutput(m) ==
    /\ cmds[m].pc \in PostSteps
    /\ Open
    /\ sent' = Push(sent, LogFrame)
    /\ UNCHANGED <<wsState, sendThrows, eksProcess, eksProcessExited, cmds,
                   badSend, escaped>>

\* The 15 s wait is over: the 'complete' frame (not guarded), the timer that
\* will close the socket, the cleanup.
DelayDone(m) ==
    /\ cmds[m].pc = "delay"
    /\ UNCHANGED <<wsState, sendThrows, eksProcessExited>>
    /\ IF Open
       THEN /\ sent' = Push(sent, Frame("complete", m))
            /\ cmds' = Cleanup(Step(cmds, m, "grace"),
                               eksProcess, eksProcessExited)
            /\ eksProcess' = 0
            /\ UNCHANGED <<badSend, escaped>>
       ELSE /\ badSend' = TRUE
            /\ UNCHANGED sent
            /\ IF sendThrows
               THEN /\ cmds' = [cmds EXCEPT ![m].pc = "crashed"]
                    /\ escaped' = TRUE
                    /\ UNCHANGED eksProcess
               ELSE /\ cmds' = Cleanup([cmds EXCEPT ![m].pc = "grace"],
                                       eksProcess, eksProcessExited)
                    /\ eksProcess' = 0
                    /\ UNCHANGED escaped

\* The one-second timer set with the terminal frame: ws.close() if still OPEN.
GraceTimer(m) ==
    /\ cmds[m].pc = "grace"
    /\ cmds' = IF Open THEN Step(cmds, m, "done")
                       ELSE [cmds EXCEPT ![m].pc = "done"]
    /\ wsState' = CloseSocket(wsState)
    /\ UNCHANGED <<sendThrows, eksProcess, eksProcessExited, sent, badSend,
                   escaped>>

\* ws.on('close'): the socket is CLOSED when the listener runs.
WsClose ==
    /\ wsState # "CLOSED"
    /\ wsState' = "CLOSED"
    /\ cmds' = Cleanup(cmds, eksProcess, eksProcessExited)
    /\ eksProcess' = 0
    /\ UNCHANGED <<sendThrows, eksProcessExited, sent, badSend, escaped>>

\* ws.on('error'), run with the readyState `st` the socket has at the event:
\* the cleanup, then an error frame and ws.close() if the socket is OPEN.
OnWsError(st) ==
    /\ cmds' = Cleanup(cmds, eksProcess, eksProcessExited)
    /\ eksProcess' = 0
    /\ sent' = IF st = "OPEN" THEN Push(sent, Frame("error", 0)) ELSE sent
    /\ wsState' = CloseSocket(st)
    /\ UNCHANGED <<sendThrows, eksProcessExited, badSend, escaped>>

\* The ws package sets readyState to CLOSING before it emits 'error'.
WsError ==
    /\ wsState # "CLOSED"
    /\ OnWsError("CLOSING")

Next ==
    \/ \E kind \in Kinds : Message(kind) /\ Elsewhere
    \/ \E m \in DOMAIN cmds, ok \in BOOLEAN : IdentityDone(m, ok) /\ Elsewhere
    \/ \E m \in DOMAIN cmds, res \in {"allowed", "denied", "fail"} :
          SimulateDone(m, res) /\ Elsewhere
    \/ \E m \in DOMAIN cmds : ExistsOutput(m) /\ Elsewhere
    \/ \E m \in DOMAIN cmds, res \in {"found", "notfound", "other"} :
          ExistsDone(m, res) /\ Elsewhere
    \/ \E m \in DOMAIN cmds : ChildOutput(m) /\ Elsewhere
    \/ \E m \in DOMAIN cmds : ChildError(m) /\ Elsewhere
    \/ \E m \in DOMAIN cmds, code \in {0, 1} : ChildClose(m, code) /\ Elsewhere
    \/ \E m \in DOMAIN cmds, r \in StorageOutcomes, alb \in BOOLEAN :
          StorageDone(m, r, alb) /\ Elsewhere
    \/ \E m \in DOMAIN cmds, r \in {"ok", "fail", "throw"} :
          AlbStepDone(m, r) /\ Elsewhere
    \/ \E m \in DOMAIN cmds : StepOutput(m) /\ Elsewhere
    \/ \E m \in DOMAIN cmds : DelayDone(m) /\ Elsewhere
    \/ \E m \in DOMAIN cmds : GraceTimer(m) /\ Elsewhere
    \/ WsClose /\ Elsewhere
    \/ WsError /\ Elsewhere

Spec == Init /\ [][Next]_vars

\* Every step a pending command takes on its own: a CLI call, a child, a
\* post-creation step or a timer settles.  Messages, child output, and the
\* socket's close and error events may or may not come.
Progress(m) ==
    /\ m \in DOMAIN cmds
    /\ Elsewhere
    /\ \/ \E ok \in BOOLEAN : IdentityDone(m, ok)
       \/ \E res \in {"allowed", "denied", "fail"} : SimulateDone(m, res)
       \/ \E res \in {"found", "notfound", "other"} : ExistsDone(m, res)
       \/ ChildError(m)
       \/ \E code \in {0, 1} : ChildClose(m, code)
       \/ \E r \in StorageOutcomes, alb \in BOOLEAN : StorageDone(m, r, alb)
       \/ \E r \in {"ok", "fail", "throw"} : AlbStepDone(m, r)
       \/ DelayDone(m)
       \/ GraceTimer(m)

\* The session under the assumption that every CLI call, child process,
\* post-creation step and timer eventually settles.
FairSpec == Spec /\ \A m \in 1..MaxMsgs : WF_vars(Progress(m))

\* The connection whose handlers run, as a record.
ThisSession ==
    [wsState |-> wsState, eksProcess |-> eksProcess,
     eksProcessExited |-> eksProcessExited, cmds |-> cmds, sent |-> sent]

\* The event loop turns to the events of the other connection.
Switch ==
    /\ parked' = ThisSession
    /\ wsState' = parked.wsState
    /\ eksProcess' = parked.eksProcess
    /\ eksProcessExited' = parked.eksProcessExited
    /\ cmds' = parked.cmds
    /\ sent' = parked.sent
    /\ UNCHANGED <<sendThrows, badSend, escaped, pfVars, utilVars>>

TwoNext == Next \/ Switch

\* Two concurrent 'eks-cli-stream' connections of one server.
TwoSpec == Init /\ [][TwoNext]_vars

----------------------------------------------------------------------------
\* The port-forward routes.  A request record keeps the kind of the request,
\* the state of the kubectl process it spawned ("none" if it spawned none)
\* and the response: "pending" while no header is sent, "started" and
\* "active" for the two 200 answers of the start route that carry port 8080,
\* "failed" for its 500 answer, "stopped" and "nothing" for the two answers
\* of the stop route.

\* The routes and listeners touch nothing of the WebSocket sessions.
PfOnly ==
    UNCHANGED <<wsState, sendThrows, eksProcess, eksProcessExited, cmds, sent,
                badSend, escaped, parked, utilVars>>

PfReq(kind, proc, reply) == [kind |-> kind, proc |-> proc, reply |-> reply]

\* The processes whose listeners can still run.
PfProcs == {p \in DOMAIN pfReqs : pfReqs[p].proc \in {"running", "killed"}}

\* POST /kube-start-port-forward.
PfStart ==
    /\ Len(pfReqs) < MaxReqs
    /\ IF pfHandle # 0
       THEN /\ pfReqs' = Append(pfReqs, PfReq("start", "none", "active"))
            /\ UNCHANGED pfHandle
       ELSE /\ pfReqs' = Append(pfReqs, PfReq("start", "running", "pending"))
            /\ pfHandle' = Len(pfReqs) + 1
    /\ UNCHANGED <<pfSeen, pfKills>>
    /\ PfOnly

\* A kill('SIGTERM') call of the stop request that is arriving.
PfKill(p) == [by |-> Len(pfReqs) + 1, of |-> p]

\* A mutation of the stop route: the handle is not cleared.
PfStopKeepsHandle ==
    /\ Len(pfReqs) < MaxReqs
    /\ IF pfHandle # 0
       THEN /\ pfReqs' = Append(
                   [pfReqs EXCEPT ![pfHandle].proc =
                        IF @ = "running" THEN "killed" ELSE @],
                   PfReq("stop", "none", "stopped"))
            /\ pfKills' = Append(pfKills, PfKill(pfHandle))
       ELSE /\ pfReqs' = Append(pfReqs, PfReq("stop", "none", "nothing"))
            /\ UNCHANGED pfKills
    /\ UNCHANGED <<pfHandle, pfSeen>>
    /\ PfOnly

\* POST /kube-stop-port-forward.
PfStop ==
    /\ Len(pfReqs) < MaxReqs
    /\ IF pfHandle # 0
       THEN /\ pfReqs' = Append(
                   [pfReqs EXCEPT ![pfHandle].proc =
                        IF @ = "running" THEN "killed" ELSE @],
                   PfReq("stop", "none", "stopped"))
            /\ pfKills' = Append(pfKills, PfKill(pfHandle))
            /\ pfHandle' = 0
       ELSE /\ pfReqs' = Append(pfReqs, PfReq("stop", "none", "nothing"))
            /\ UNCHANGED <<pfHandle, pfKills>>
    /\ UNCHANGED pfSeen
    /\ PfOnly

\* A mutation of the stdout listener: any chunk answers the request.
PfStdoutAnyChunk(p, ready) ==
    /\ p \in PfProcs
    /\ pfReqs' = [pfReqs EXCEPT ![p].reply =
                      IF @ = "pending" THEN "started" ELSE @]
    /\ pfSeen' = IF ready THEN pfSeen \cup {p} ELSE pfSeen
    /\ UNCHANGED <<pfHandle, pfKills>>
    /\ PfOnly

\* portForward.stdout.on('data'): the request is answered once a chunk
\* contains 'Forwarding from'.
PfStdout(p, ready) ==
    /\ p \in PfProcs
    /\ pfReqs' = [pfReqs EXCEPT ![p].reply =
                      IF @ = "pending" /\ ready THEN "started" ELSE @]
    /\ pfSeen' = IF ready THEN pfSeen \cup {p} ELSE pfSeen
    /\ UNCHANGED <<pfHandle, pfKills>>
    /\ PfOnly

\* portForward.stderr.on('data'): a 500 answer if none was sent, and the
\* handle is cleared; the process is not signalled.
PfStderr(p) ==
    /\ p \in PfProcs
    /\ pfReqs' = [pfReqs EXCEPT ![p].reply =
                      IF @ = "pending" THEN "failed" ELSE @]
    /\ pfHandle' = 0
    /\ UNCHANGED <<pfSeen, pfKills>>
    /\ PfOnly

\* A mutation of the 'close' listener: the handle is not cleared.
PfCloseKeepsHandle(p) ==
    /\ pfReqs[p].proc \in {"running", "killed", "failed"}
    /\ pfReqs' = [pfReqs EXCEPT ![p].proc = "exited"]
    /\ UNCHANGED <<pfHandle, pfSeen, pfKills>>
    /\ PfOnly

\* portForward.on('close'): the process has ended.
PfClose(p) ==
    /\ pfReqs[p].proc \in {"running", "killed", "failed"}
    /\ pfReqs' = [pfReqs EXCEPT ![p].proc = "exited"]
    /\ pfHandle' = 0
    /\ UNCHANGED <<pfSeen, pfKills>>
    /\ PfOnly

\* portForward.on('error'): kubectl could not be spawned.
PfSpawnError(p) ==
    /\ pfReqs[p].proc = "running"
    /\ pfReqs[p].reply = "pending"
    /\ pfReqs' = [pfReqs EXCEPT ![p].proc = "failed", ![p].reply = "failed"]
    /\ pfHandle' = 0
    /\ UNCHANGED <<pfSeen, pfKills>>
    /\ PfOnly

PfNext ==
    \/ PfStart
    \/ PfStop
    \/ \E p \in DOMAIN pfReqs, ready \in BOOLEAN : PfStdout(p, ready)
    \/ \E p \in DOMAIN pfReqs : PfStderr(p)
    \/ \E p \in DOMAIN pfReqs : PfClose(p)
    \/ \E p \in DOMAIN pfReqs : PfSpawnError(p)

\* The server's port-forward requests and the events of the processes they
\* spawned.
PfSpec == Init /\ [][PfNext]_vars

----------------------------------------------------------------------------
\* What the claims speak of.

TerminalIdx == {i \in DOMAIN sent : sent[i].type \in {"complete", "error"}}

ErrFrames(m) ==
    {i \in DOMAIN sent : sent[i].type = "error" /\ sent[i].cmd = m}

CompleteFrames(m) == {i \in DOMAIN sent : sent[i] = Frame("complete", m)}

HasTerminal(m) == ErrFrames(m) \cup CompleteFrames(m) # {}

Creates == {m \in DOMAIN cmds : cmds[m].kind = "create"}

Live == {m \in DOMAIN cmds : cmds[m].proc = "running"}

SocketCloses == wsState # "CLOSED" /\ wsState' = "CLOSED"

----------------------------------------------------------------------------
\* C1: the session sends at most one terminal frame ('complete' or 'error')
\* and no frame of any type after it.
C1_OneTerminalFrameAndLast ==
    /\ Cardinality(TerminalIdx) <= 1
    /\ \A i \in TerminalIdx : i = Len(sent)

\* C2 as stated: once the pre-flight check of a create command has failed,
\* the existence check and the creation subprocess are never started, and
\* exactly one error frame of the command has been sent and the socket is no
\* longer open.
C2_AsStated ==
    \A m \in Creates :
        cmds[m].pre = "fail" =>
            /\ cmds[m].pc = "aborted"
            /\ cmds[m].ex = "none"
            /\ cmds[m].proc = "none"
            /\ Cardinality(ErrFrames(m)) = 1
            /\ wsState # "OPEN"

\* C2, amended: a create command whose pre-flight check failed stops where
\* it is, in the identity lookup or the simulation: it never gets to the
\* existence check and never spawns.  If the socket is open when the failure
\* is detected, exactly one error frame is sent for the command and the
\* socket is closed; if it is not, no frame is sent.
C2_PreflightFailureAborts ==
    /\ [](\A m \in Creates :
            cmds[m].pre = "fail" =>
                /\ cmds[m].pc = "aborted"
                /\ cmds[m].ex = "none"
                /\ cmds[m].proc = "none"
                /\ Cardinality(ErrFrames(m)) <= 1
                /\ CompleteFrames(m) = {}
                /\ ErrFrames(m) # {} => wsState # "OPEN")
    /\ [][\A m \in Creates :
            (cmds[m].pre # "fail" /\ cmds'[m].pre = "fail") =>
                /\ cmds[m].pc \in {"identity", "simulate"}
                /\ IF Open
                   THEN /\ sent' = Append(sent, Frame("error", m))
                        /\ wsState' = "CLOSING"
                   ELSE UNCHANGED <<sent, wsState>>]_vars

\* A pre-flight check failed on an open socket: its error frame is out and
\* the socket is closing.
C2_Witness ==
    \E m \in Creates :
        /\ cmds[m].pre = "fail"
        /\ Cardinality(ErrFrames(m)) = 1
        /\ wsState = "CLOSING"

\* C3 as stated: for a create command that passed pre-flight and whose
\* existence check has returned, the creation subprocess was started if and
\* only if the check failed with 'ResourceNotFoundException'; otherwise an
\* error frame was sent, the socket closed and nothing spawned.
C3_AsStated ==
    \A m \in Creates :
        (cmds[m].pre = "pass" /\ cmds[m].ex # "none") =>
            /\ cmds[m].proc # "none" <=> cmds[m].ex = "notfound"
            /\ cmds[m].ex \in {"found", "other"} =>
                   /\ Cardinality(ErrFrames(m)) = 1
                   /\ wsState # "OPEN"

\* C3, amended: the creation subprocess is started only for a command that
\* passed pre-flight and whose existence check failed with
\* 'ResourceNotFoundException'; a successful lookup or any other failure
\* never starts it.  If the socket is open when the check returns, that
\* failure always starts the subprocess, and a successful lookup or another
\* failure sends exactly one error frame and closes the socket; if the socket
\* is not open, no frame is sent.
C3_ExistenceCheckDecides ==
    /\ [](\A m \in Creates :
            /\ cmds[m].proc # "none" =>
                   cmds[m].pre = "pass" /\ cmds[m].ex = "notfound"
            /\ cmds[m].ex # "none" => cmds[m].pre = "pass"
            /\ cmds[m].ex \in {"found", "other"} =>
                   /\ cmds[m].pc = "aborted"
                   /\ Cardinality(ErrFrames(m)) <= 1
                   /\ ErrFrames(m) # {} => wsState # "OPEN")
    /\ [][\A m \in Creates :
            (cmds[m].ex = "none" /\ cmds'[m].ex # "none") =>
                /\ cmds[m].pc = "exists"
                /\ IF Open
                   THEN IF cmds'[m].ex = "notfound"
                        THEN /\ cmds'[m].proc = "running"
                             /\ cmds'[m].attached
                             /\ eksProcess' = m
                             /\ wsState' = wsState
                        ELSE /\ sent' = Append(sent, Frame("error", m))
                             /\ wsState' = "CLOSING"
                   ELSE UNCHANGED <<sent, wsState>>]_vars

\* An existence check that found no cluster has started the creation
\* subprocess.
C3_Witness ==
    \E m \in Creates :
        /\ cmds[m].ex = "notfound"
        /\ cmds[m].proc = "running"
        /\ eksProcess = m

\* C4 as stated: a subprocess that is running when the socket closes is not
\* killed.
C4_AsStated ==
    [][SocketCloses =>
          \A m \in Live : cmds'[m].proc = "running"]_vars

\* C4, amended: when the client disconnects while the tracked subprocess is
\* running, the close handler removes the subprocess's listeners, sends it
\* SIGKILL unless eksProcessExited is already set, and clears the reference.
\* The later exit of a subprocess without listeners runs no handler, and
\* nothing is sent once the socket is closed, so no frame reaches the closed
\* socket and no exception escapes on behalf of that subprocess.
C4_CloseKillsTrackedChild ==
    /\ [][SocketCloses =>
            /\ eksProcess' = 0
            /\ UNCHANGED <<sent, escaped>>
            /\ \A m \in Live :
                  m = eksProcess =>
                      /\ ~cmds'[m].attached
                      /\ ~eksProcessExited => cmds'[m].proc = "killed"]_vars
    /\ [][wsState = "CLOSED" => sent' = sent]_vars
    /\ [][\A m \in Live :
            (~cmds[m].attached /\ cmds'[m].proc # "running") =>
                UNCHANGED <<wsState, sent, escaped, eksProcess,
                            eksProcessExited>>]_vars

\* The socket closed while the only command's subprocess was running: the
\* subprocess is killed and has no listeners.
C4_Witness ==
    /\ wsState = "CLOSED"
    /\ Len(cmds) = 1
    /\ cmds[1].proc = "killed"
    /\ ~cmds[1].attached
    /\ eksProcess = 0

\* The events after which the tracked child must be gone: the socket's close,
\* the socket's error on an open socket, a malformed message, a completed
\* command.
SocketErrors ==
    /\ wsState = "OPEN"
    /\ wsState' = "CLOSING"
    /\ sent' = sent
    /\ Len(cmds') = Len(cmds)
    /\ \A m \in DOMAIN cmds : cmds'[m].pc = cmds[m].pc

MalformedArrives ==
    /\ Len(cmds') = Len(cmds) + 1
    /\ cmds'[Len(cmds')].kind = "malformed"

CompleteSent ==
    /\ Len(sent') = Len(sent) + 1
    /\ sent'[Len(sent')].type = "complete"

\* C5: after the session has handled the socket's close or error, a
\* malformed message or the completion of its command, the child it tracked
\* has no listeners, is not running (it had exited or was sent SIGKILL), and
\* the reference is null, so nothing from that child is sent afterwards.
C5_TrackedChildCleanedUp ==
    [][(SocketCloses \/ SocketErrors \/ MalformedArrives \/ CompleteSent) =>
          /\ eksProcess' = 0
          /\ \A m \in DOMAIN cmds :
                m = eksProcess =>
                    /\ ~cmds'[m].attached
                    /\ cmds'[m].proc # "running"]_vars

\* C6: a session never has more than one live child spawned for its create
\* and delete commands (a child alive when the next one is spawned has been
\* killed first).
C6_AtMostOneLiveChild == Cardinality(Live) <= 1

\* C7: once the socket is closed, a create command that had not yet spawned
\* its creation subprocess never spawns it.
C7_CloseCancelsPendingCreate ==
    [][wsState = "CLOSED" =>
          \A m \in Creates :
              cmds[m].proc = "none" => cmds'[m].proc = "none"]_vars

\* C8: ws.send is never called on a socket that is not OPEN, and so no send
\* raises an error.
C8_NoSendUnlessOpen == ~badSend /\ ~escaped

\* C9: every create or delete command eventually has its terminal frame
\* sent, unless the socket stops being open first, given that every CLI
\* call, child, post-creation step and timer eventually settles.
C9_CommandGetsTerminalFrame ==
    \A m \in 1..MaxMsgs :
        (m \in DOMAIN cmds /\ cmds[m].kind \in {"create", "delete"})
            ~> (wsState # "OPEN" \/ HasTerminal(m))

\* A create command got its 'complete' frame on a socket still open.
C9_Witness ==
    \E m \in Creates : CompleteFrames(m) # {} /\ wsState = "OPEN"

\* C10: when the creation subprocess exits with code 0 on an open socket the
\* handler starts the storage-class step; with the ALB flag false the next
\* thing it does is the wait, no ALB sub-step in between; when the wait is
\* over, on a socket still open, it sends the command's one 'complete'
\* frame; the socket is left alone by the command until the timer set with
\* that frame closes it.
C10_CreateSucceedsWithoutAlb ==
    /\ [](\A m \in Creates :
            /\ cmds[m].pc \in PostSteps \cup {"delay"} =>
                   cmds[m].code = 0 /\ ~HasTerminal(m)
            /\ cmds[m].alb = "unset" => cmds[m].pc \notin PostSteps
            /\ Cardinality(CompleteFrames(m)) <= 1
            /\ CompleteFrames(m) # {} =>
                   /\ cmds[m].code = 0
                   /\ cmds[m].pc \in {"grace", "done"}
                   /\ ErrFrames(m) = {})
    /\ [][\A m \in Creates :
            /\ ( /\ cmds[m].proc = "running"
                 /\ cmds[m].attached
                 /\ cmds'[m].proc = "exited"
                 /\ cmds'[m].code = 0
                 /\ Open ) =>
                   cmds'[m].pc = "storage" /\ UNCHANGED <<sent, wsState>>
            /\ (cmds[m].pc = "storage" /\ cmds'[m].alb = "unset") =>
                   /\ UNCHANGED wsState
                   /\ cmds'[m].pc \in {"delay", "crashed"}
                   /\ Open => cmds'[m].pc = "delay"
            /\ ( /\ cmds[m].alb = "unset"
                 /\ cmds[m].pc = "delay"
                 /\ cmds'[m].pc # "delay" ) =>
                   /\ UNCHANGED wsState
                   /\ IF Open
                      THEN /\ cmds'[m].pc = "grace"
                           /\ sent' = Append(sent, Frame("complete", m))
                      ELSE sent' = sent
            /\ CompleteFrames(m)' # CompleteFrames(m) => cmds[m].pc = "delay"
            /\ ( /\ cmds[m].alb = "unset"
                 /\ cmds[m].pc = "grace"
                 /\ cmds'[m].pc # "grace" ) =>
                   /\ cmds'[m].pc = "done"
                   /\ wsState' = CloseSocket(wsState)
                   /\ sent' = sent]_vars

\* A creation without ALB ran to its end: exit code 0, the 'complete' frame
\* sent once, the socket closed after it.
C10_Witness ==
    \E m \in Creates :
        /\ cmds[m].alb = "unset"
        /\ cmds[m].code = 0
        /\ cmds[m].pc = "done"
        /\ Cardinality(CompleteFrames(m)) = 1
        /\ ErrFrames(m) = {}
        /\ wsState # "OPEN"

\* The exit of the child of command m reaches its 'close' listener, which
\* finds the socket open.
ExitHandledOpen(m) ==
    /\ cmds[m].proc = "running"
    /\ cmds[m].attached
    /\ cmds'[m].proc = "exited"
    /\ Open

\* C11: when the creation subprocess exits with a nonzero code and its
\* 'close' listener finds the socket open, the listener sends one error
\* frame that names the exit code, the only error frame of the command, and
\* no 'complete' frame; a command whose creation failed is never in the
\* storage-class step, an ALB sub-step or the wait, and its ALB flag is
\* never read.
C11_CreateFailureReported ==
    /\ [](\A m \in Creates :
            cmds[m].code > 0 =>
                /\ cmds[m].pc \notin PostSteps \cup {"delay"}
                /\ cmds[m].alb = "unread"
                /\ ~cmds[m].albFail
                /\ CompleteFrames(m) = {}
                /\ Cardinality(ErrFrames(m)) <= 1)
    /\ [][\A m \in Creates :
            (ExitHandledOpen(m) /\ cmds'[m].code # 0) =>
                /\ sent' = Append(sent, ExitError(m, cmds'[m].code))
                /\ Cardinality(ErrFrames(m)') = 1
                /\ cmds'[m].pc = "grace"]_vars

\* A creation failed with code 1 on an open socket: its error frame, naming
\* the code, is the last frame sent.
C11_Witness ==
    \E m \in Creates :
        /\ cmds[m].code = 1
        /\ cmds[m].pc = "grace"
        /\ Len(sent) > 0
        /\ sent[Len(sent)] = ExitError(m, 1)

C14_BadMessageRejected ==
    [][\A kind \in {"malformed", "unknown"} :
          ( /\ Len(cmds') = Len(cmds) + 1
            /\ cmds'[Len(cmds')].kind = kind
            /\ Open ) =>
              /\ sent' = Append(sent, Frame("error", Len(cmds')))
              /\ wsState' = "CLOSING"
              /\ UNCHANGED escaped]_vars

\* The step a create command may be in right after the step `pc`.
C15_After(pc) ==
    CASE pc = "identity" -> {"simulate", "aborted"}
      [] pc = "simulate" -> {"exists", "aborted"}
      [] pc = "exists"   -> {"running", "aborted"}
      [] pc = "running"  -> {"storage", "grace", "done"}
      [] pc = "storage"  -> {"certmgr", "delay", "crashed"}
      [] pc = "certmgr"  -> {"policy", "delay", "crashed"}
      [] pc = "policy"   -> {"iamsa", "delay", "crashed"}
      [] pc = "iamsa"    -> {"manifest", "delay", "crashed"}
      [] pc = "manifest" -> {"delay", "crashed"}
      [] pc = "delay"    -> {"grace", "crashed"}
      [] pc = "grace"    -> {"done"}
      [] OTHER           -> {}

\* C15: a create command is in one step at a time and takes the steps in the
\* order caller-identity lookup, IAM simulation, existence check, cluster
\* creation, storage-class step, ALB sub-steps, wait, each entered when the
\* step before it has settled; the creation subprocess does not exist while
\* the three checks run and has exited with code 0 when a later step runs.
C15_CreateStepsSequential ==
    /\ [](\A m \in Creates :
            /\ cmds[m].pc \in {"identity", "simulate", "exists"} =>
                   cmds[m].proc = "none"
            /\ cmds[m].pc = "running" => cmds[m].proc # "none"
            /\ cmds[m].pc \in PostSteps \cup {"delay"} =>
                   cmds[m].proc = "exited" /\ cmds[m].code = 0)
    /\ [][/\ \A m \in Creates :
               cmds'[m].pc # cmds[m].pc =>
                   cmds'[m].pc \in C15_After(cmds[m].pc)
          /\ \A m \in DOMAIN cmds' \ DOMAIN cmds :
               cmds'[m].kind = "create" =>
                   cmds'[m].pc \in {"identity", "aborted"}]_vars

\* A create command went through every step up to the wait.
C15_Witness ==
    \E m \in Creates :
        /\ cmds[m].pc = "delay"
        /\ cmds[m].pre = "pass"
        /\ cmds[m].ex = "notfound"
        /\ cmds[m].alb = "set"
        /\ ~cmds[m].albFail

\* C16: every step is an event of one connection, and it leaves the other
\* connection as it was: its socket, its tracked child and exited flag, its
\* commands and their children, the frames sent on it.  (The other steps only
\* turn the event loop from one connection to the other.)
C16_SessionsIndependent ==
    [][\/ parked' = parked
       \/ parked' = ThisSession /\ ThisSession' = parked]_vars

\* Two connections each with a delete command: the child of one has exited
\* and its 'complete' frame is out, the child of the other is still running
\* and tracked, and nothing has been sent on that connection.
C16_Witness ==
    /\ Len(cmds) = 1
    /\ Len(parked.cmds) = 1
    /\ cmds[1].proc = "exited"
    /\ CompleteFrames(1) # {}
    /\ eksProcess = 0
    /\ eksProcessExited
    /\ parked.cmds[1].proc = "running"
    /\ parked.cmds[1].attached
    /\ parked.eksProcess = 1
    /\ ~parked.eksProcessExited
    /\ parked.sent = << >>

Deletes == {m \in DOMAIN cmds : cmds[m].kind = "delete"}

\* C17: a delete command spawns its subprocess in the handler run that takes
\* the message, sending nothing, and never spawns another; it has no
\* pre-flight check, no existence check and no post-creation step; when the
\* exit of the subprocess reaches its 'close' listener on an open socket the
\* listener sends one frame, 'complete' for exit code 0 and otherwise 'error'
\* naming the code, and the command never has a second terminal frame.
C17_DeleteIsOneSubprocess ==
    /\ [](\A m \in Deletes :
            /\ cmds[m].pre = "none"
            /\ cmds[m].ex = "none"
            /\ cmds[m].alb = "unread"
            /\ cmds[m].pc \in {"running", "grace", "done"}
            /\ cmds[m].proc # "none"
            /\ Cardinality(ErrFrames(m) \cup CompleteFrames(m)) <= 1
            /\ CompleteFrames(m) # {} => cmds[m].code = 0
            /\ (ErrFrames(m) # {} /\ cmds[m].proc = "exited") =>
                   cmds[m].code > 0)
    /\ [][/\ \A m \in DOMAIN cmds' \ DOMAIN cmds :
               cmds'[m].kind = "delete" =>
                   /\ cmds'[m].pc = "running"
                   /\ cmds'[m].proc = "running"
                   /\ cmds'[m].attached
                   /\ eksProcess' = m
                   /\ UNCHANGED <<sent, wsState>>
          /\ \A m \in Deletes :
               /\ cmds[m].proc # "running" => cmds'[m].proc # "running"
               /\ ExitHandledOpen(m) =>
                      /\ cmds'[m].pc = "grace"
                      /\ sent' = Append(sent,
                                    IF cmds'[m].code = 0
                                    THEN Frame("complete", m)
                                    ELSE ExitError(m, cmds'[m].code))]_vars

\* A delete command ended with exit code 0: its 'complete' frame was sent and
\* the socket closed after it.
C17_Witness ==
    \E m \in Deletes :
        /\ cmds[m].code = 0
        /\ cmds[m].pc = "done"
        /\ Cardinality(CompleteFrames(m)) = 1
        /\ ErrFrames(m) = {}

\* The port-forward processes that are running and were sent no signal.
PfLive == {p \in DOMAIN pfReqs : pfReqs[p].proc = "running"}

\* A start request arrives.
PfStartArrives ==
    /\ Len(pfReqs') = Len(pfReqs) + 1
    /\ pfReqs'[Len(pfReqs')].kind = "start"

\* C18: at most one port-forward subprocess spawned by the server is alive.
C18_OnePortForwardAlive == Cardinality(PfLive) <= 1

\* C19: a start request that follows a start request which spawned a
\* subprocess that is still running is answered 'already active' with port
\* 8080 and spawns nothing, and the first of the two was not refused.
C19_StartTwiceOneProcess ==
    [][( /\ PfStartArrives
         /\ Len(pfReqs) > 0
         /\ pfReqs[Len(pfReqs)].kind = "start"
         /\ pfReqs[Len(pfReqs)].proc = "running" ) =>
            /\ pfReqs'[Len(pfReqs')].reply = "active"
            /\ pfReqs'[Len(pfReqs')].proc = "none"
            /\ pfReqs[Len(pfReqs)].reply # "failed"]_vars

\* C20: the handle is never stale: while it is set, the process it names is
\* running.  When a process that was running and not stopped ends, the
\* handle is cleared; a start request that finds the handle cleared spawns a
\* new process, which becomes the handle, and is not answered 'already
\* active'.
C20_ExitClearsHandle ==
    /\ [](pfHandle # 0 =>
            /\ pfHandle \in DOMAIN pfReqs
            /\ pfReqs[pfHandle].proc = "running")
    /\ [][/\ \A p \in PfLive : pfReqs'[p].proc = "exited" => pfHandle' = 0
          /\ (PfStartArrives /\ pfHandle = 0) =>
                 /\ pfReqs'[Len(pfReqs')].proc = "running"
                 /\ pfReqs'[Len(pfReqs')].reply = "pending"
                 /\ pfHandle' = Len(pfReqs')]_vars

\* Two start requests and no stop: the process of the first, which had
\* answered, has ended on its own, and the second spawned a new process.
C20_Witness ==
    /\ Len(pfReqs) = 2
    /\ pfReqs[1] = PfReq("start", "exited", "started")
    /\ pfReqs[2].kind = "start"
    /\ pfReqs[2].proc = "running"
    /\ pfHandle = 2

\* The start requests that spawned a process.
PfSpawned ==
    {p \in DOMAIN pfReqs : pfReqs[p].kind = "start" /\ pfReqs[p].proc # "none"}

\* The stop requests.
PfStops == {p \in DOMAIN pfReqs : pfReqs[p].kind = "stop"}

\* The kill calls that request p made.
PfKillsBy(p) == {k \in DOMAIN pfKills : pfKills[k].by = p}

\* C21: a start request that spawned the subprocess receives at most one
\* response (once answered, its answer never changes), and its success
\* answer only when a stdout chunk of its process contained 'Forwarding
\* from': it is unanswered until a listener of its process runs.
C21_OneReplyAfterReady ==
    /\ [](\A p \in PfSpawned :
             /\ pfReqs[p].reply \in {"pending", "started", "failed"}
             /\ pfReqs[p].reply = "started" => p \in pfSeen)
    /\ [][/\ \A p \in PfSpawned :
               pfReqs[p].reply # "pending" =>
                   pfReqs'[p].reply = pfReqs[p].reply
          /\ \A p \in PfSpawned' \ PfSpawned :
               pfReqs'[p].reply = "pending"]_vars

\* A start request was answered with success after the readiness text, and
\* a stderr chunk that came later cleared the handle without a second
\* answer.
C21_Witness ==
    \E p \in PfSpawned :
        /\ pfReqs[p].reply = "started"
        /\ p \in pfSeen
        /\ pfReqs[p].proc = "running"
        /\ pfHandle = 0
        /\ Len(pfReqs) = 1

\* C22: a stop request that finds a handle sends one termination signal, to
\* the process of the handle, clears the handle and answers 'stopped'; one
\* that finds none sends no signal and answers 'nothing to stop'.  Of two
\* stop requests in a row, the first of which found a handle, exactly one
\* signal is sent and both are answered with success.
C22_StopIdempotent ==
    /\ [](\A p \in PfStops :
             /\ pfReqs[p].reply \in {"stopped", "nothing"}
             /\ Cardinality(PfKillsBy(p)) =
                    (IF pfReqs[p].reply = "stopped" THEN 1 ELSE 0)
             /\ (p + 1 \in PfStops /\ pfReqs[p].reply = "stopped") =>
                    /\ pfReqs[p + 1].reply = "nothing"
                    /\ Cardinality(PfKillsBy(p) \cup PfKillsBy(p + 1)) = 1)
    /\ [][\A p \in PfStops' \ PfStops :
             IF pfHandle # 0
             THEN /\ pfReqs'[p].reply = "stopped"
                  /\ pfKills' = Append(pfKills, [by |-> p, of |-> pfHandle])
                  /\ pfReqs[pfHandle].proc = "running"
                  /\ pfReqs'[pfHandle].proc = "killed"
                  /\ pfHandle' = 0
             ELSE /\ pfReqs'[p].reply = "nothing"
                  /\ UNCHANGED <<pfHandle, pfKills>>
                  /\ \A q \in DOMAIN pfReqs : pfReqs'[q] = pfReqs[q]]_vars

\* A start and two stops in a row: one signal, sent by the first stop.
C22_Witness ==
    /\ Len(pfReqs) = 3
    /\ pfReqs[1].kind = "start"
    /\ pfReqs[2] = PfReq("stop", "none", "stopped")
    /\ pfReqs[3] = PfReq("stop", "none", "nothing")
    /\ pfKills = <<[by |-> 2, of |-> 1]>>

----------------------------------------------------------------------------
\* utils/cache.js: the in-memory cache with a time-to-live given by the
\* reader.

\* The largest reading of the clock.
MaxNow == 3

\* The largest time-to-live a reader passes.
MaxTtl == 2

Keys == {"pods", "nodes"}

Values == {"v1", "v2"}

\* The forceRefresh arguments: absent, the booleans, and the string 'false'
\* of a query parameter.
ForceValues == {"undefined", "false", "true", "'false'"}

\* JavaScript's truthiness of a forceRefresh argument.
Truthy(v) == v \in {"true", "'false'"}

\* The helpers touch nothing of the sessions and of the port-forward routes.
UtilOnly ==
    UNCHANGED <<wsState, sendThrows, eksProcess, eksProcessExited, cmds, sent,
                badSend, escaped, parked, pfVars>>

CacheOnly ==
    UtilOnly /\ UNCHANGED <<execVars, retry, parsed, generated, route, creds>>

\* A mutation of the freshness test: an entry whose age equals ttl is stale.
LookupStaleAtTtl(key, ttl, forceRefresh) ==
    LET force == IF forceRefresh = "undefined" THEN "false" ELSE forceRefresh
    IN  IF \/ key \notin DOMAIN cache
           \/ Truthy(force)
           \/ now - cache[key].timestamp >= ttl
        THEN Null
        ELSE cache[key].data

\* What getCachedData returns.
Lookup(key, ttl, forceRefresh) ==
    LET force == IF forceRefresh = "undefined" THEN "false" ELSE forceRefresh
    IN  IF \/ key \notin DOMAIN cache
           \/ Truthy(force)
           \/ now - cache[key].timestamp > ttl
        THEN Null
        ELSE cache[key].data

\* delete cache[key].
Without(key) == [k \in DOMAIN cache \ {key} |-> cache[k]]

\* The record of a getCachedData call.
Read(key, ttl, forceRefresh) ==
    [key |-> key, ttl |-> ttl, forceRefresh |-> forceRefresh,
     result |-> Lookup(key, ttl, forceRefresh), odd |-> ~got.odd]

\* A mutation of getCachedData: an entry found stale is deleted.
GetCachedDataEvicts(key, ttl, forceRefresh) ==
    /\ got' = Read(key, ttl, forceRefresh)
    /\ cache' = IF /\ key \in DOMAIN cache
                   /\ now - cache[key].timestamp > ttl
                THEN Without(key)
                ELSE cache
    /\ UNCHANGED now
    /\ CacheOnly

GetCachedData(key, ttl, forceRefresh) ==
    /\ got' = Read(key, ttl, forceRefresh)
    /\ UNCHANGED <<cache, now>>
    /\ CacheOnly

SetCacheData(key, data) ==
    /\ cache' = [k \in DOMAIN cache \cup {key} |->
                     IF k = key THEN [data |-> data, timestamp |-> now]
                     ELSE cache[k]]
    /\ UNCHANGED <<now, got>>
    /\ CacheOnly

ClearCacheItem(key) ==
    /\ cache' = Without(key)
    /\ UNCHANGED <<now, got>>
    /\ CacheOnly

ClearAllCache ==
    /\ cache' = NoEntries
    /\ UNCHANGED <<now, got>>
    /\ CacheOnly

\* Time passes between two calls.
Tick ==
    /\ now < MaxNow
    /\ now' = now + 1
    /\ UNCHANGED <<cache, got>>
    /\ CacheOnly

CacheNext ==
    \/ \E key \in Keys, ttl \in 0..MaxTtl, forceRefresh \in ForceValues :
           GetCachedData(key, ttl, forceRefresh)
    \/ \E key \in Keys, data \in Values : SetCacheData(key, data)
    \/ \E key \in Keys : ClearCacheItem(key)
    \/ ClearAllCache
    \/ Tick

\* The calls of the cache's four functions, in any order, as time passes.
CacheSpec == Init /\ [][CacheNext]_vars

\* A getCachedData call returns.
CacheRead == got' # got

\* C23: getCachedData(key, ttl, forceRefresh) returns the data last stored
\* under key exactly when an entry exists, forceRefresh is falsy and
\* now - storedAt <= ttl, and null in every other case.
C23_GetReturnsFreshEntry ==
    [][CacheRead =>
          got'.result =
              IF /\ got'.key \in DOMAIN cache
                 /\ got'.forceRefresh \in {"undefined", "false"}
                 /\ now - cache[got'.key].timestamp <= got'.ttl
              THEN cache[got'.key].data
              ELSE Null]_vars

\* An entry whose age equals a positive ttl was returned.
C23_Witness ==
    /\ got.key \in DOMAIN cache
    /\ got.result = cache[got.key].data
    /\ got.ttl > 0
    /\ now - cache[got.key].timestamp = got.ttl

\* C24: getCachedData leaves the cache as it is, also when it finds the
\* entry stale or is forced to bypass it; an entry changes only when
\* setCacheData stores it anew with the current time, and goes only when it
\* is cleared, and neither happens in a read.
C24_ReadLeavesCache ==
    [][/\ CacheRead => UNCHANGED <<cache, now>>
       /\ \A k \in DOMAIN cache' :
            (k \notin DOMAIN cache \/ cache'[k] # cache[k]) =>
                /\ cache'[k].timestamp = now
                /\ ~CacheRead
       /\ \A k \in DOMAIN cache \ DOMAIN cache' : ~CacheRead]_vars

\* The last read found the entry stale and returned null; the entry is
\* still there, and a read with a larger ttl would return it.
C24_Witness ==
    /\ got.key \in DOMAIN cache
    /\ got.result = Null
    /\ got.forceRefresh = "false"
    /\ now - cache[got.key].timestamp > got.ttl
    /\ now - cache[got.key].timestamp <= MaxTtl
    /\ Lookup(got.key, MaxTtl, "false") = cache[got.key].data

----------------------------------------------------------------------------
\* utils/kubectlUtils.js: execPromise and executeCommand.  A string is a
\* sequence of characters, "a" for a character that is not white space and
\* " " for one that is; a message built from a template is the sequence of
\* its parts.  A chunk of output is one character.

\* The number of chunks the child writes to stdout and stderr together.
MaxChunks == 3

\* The number of 'error' and 'close' events the child emits.
MaxEvents == 2

Chunks == {<<"a">>, <<" ">>}

\* String.prototype.trim.
RECURSIVE Trim(_)
Trim(str) ==
    IF str = << >> THEN str
    ELSE IF Head(str) = " " THEN Trim(Tail(str))
    ELSE IF str[Len(str)] = " " THEN Trim(SubSeq(str, 1, Len(str) - 1))
    ELSE str

\* `Command exited with code ${code}`.
ExitMessage(code) == <<"Command exited with code ", ToString(code)>>

\* err.message of a child's 'error' event.
ErrMessage == <<"spawn ENOENT">>

\* `Failed to execute command "${command}": ${err.message}`.
FailedMessage == <<"Failed to execute command: ">> \o ErrMessage

\* The text of a stderr chunk in red.
Red(chunk) == <<"\\x1b[31m">> \o chunk \o <<"\\x1b[0m">>

Fulfilled(v) == [state |-> "fulfilled", value |-> v]

Rejected(v) == [state |-> "rejected", value |-> v]

\* A mutation of the promise: a later resolve or reject replaces the outcome.
SettleOverwrites(outcome) == outcome

\* resolve(...) and reject(...): a promise settles once, and a call on a
\* settled promise does nothing.
Settle(outcome) == IF promise.state = "pending" THEN outcome ELSE promise

CloseEvent(code) == [kind |-> "close", code |-> code]

ErrorEvent == [kind |-> "error", code |-> -1]

\* The child's 'close' event was emitted: its streams have ended.
Closed == \E e \in DOMAIN childProcess.events :
              childProcess.events[e].kind = "close"

\* The child can write one more chunk.
CanWrite ==
    /\ ~Closed
    /\ Len(stdoutBuffer) + Len(stderrBuffer) < MaxChunks

\* The child can emit one more 'error' or 'close' event.
CanEmit == Len(childProcess.events) < MaxEvents

Emitted(e) == [childProcess EXCEPT !.events = Append(@, e)]

\* execPromise and executeCommand touch nothing else.
ExecOnly ==
    UtilOnly /\ UNCHANGED <<cacheVars, retry, parsed, generated, route, creds>>

\* execPromise(command, options) up to its return: the child is spawned and
\* the listeners are attached.
ExecPromise ==
    /\ fn = "none"
    /\ fn' = "execPromise"
    /\ childProcess' = [childProcess EXCEPT !.spawns = @ + 1]
    /\ UNCHANGED <<stdoutBuffer, stderrBuffer, promise, sink>>
    /\ ExecOnly

\* childProcess.stdout.on('data') of execPromise.
EpStdout(chunk) ==
    /\ fn = "execPromise"
    /\ CanWrite
    /\ stdoutBuffer' = stdoutBuffer \o chunk
    /\ UNCHANGED <<fn, childProcess, stderrBuffer, promise, sink>>
    /\ ExecOnly

\* childProcess.stderr.on('data') of execPromise.
EpStderr(chunk) ==
    /\ fn = "execPromise"
    /\ CanWrite
    /\ stderrBuffer' = stderrBuffer \o chunk
    /\ UNCHANGED <<fn, childProcess, stdoutBuffer, promise, sink>>
    /\ ExecOnly

\* A mutation of the 'close' listener of execPromise: stdout is preferred to
\* stderr in the error's message.
EpCloseStdoutFirst(code) ==
    /\ fn = "execPromise"
    /\ CanEmit
    /\ childProcess' = Emitted(CloseEvent(code))
    /\ promise' = Settle(
           IF code = 0
           THEN Fulfilled(Trim(stdoutBuffer))
           ELSE Rejected(Trim(
                    IF stdoutBuffer # << >> THEN stdoutBuffer
                    ELSE IF stderrBuffer # << >> THEN stderrBuffer
                    ELSE ExitMessage(code))))
    /\ UNCHANGED <<fn, stdoutBuffer, stderrBuffer, sink>>
    /\ ExecOnly

\* childProcess.on('close') of execPromise.
EpClose(code) ==
    /\ fn = "execPromise"
    /\ CanEmit
    /\ childProcess' = Emitted(CloseEvent(code))
    /\ promise' = Settle(
           IF code = 0
           THEN Fulfilled(Trim(stdoutBuffer))
           ELSE Rejected(Trim(
                    IF stderrBuffer # << >> THEN stderrBuffer
                    ELSE IF stdoutBuffer # << >> THEN stdoutBuffer
                    ELSE ExitMessage(code))))
    /\ UNCHANGED <<fn, stdoutBuffer, stderrBuffer, sink>>
    /\ ExecOnly

\* childProcess.on('error') of execPromise.
EpError ==
    /\ fn = "execPromise"
    /\ CanEmit
    /\ childProcess' = Emitted(ErrorEvent)
    /\ promise' = Settle(Rejected(FailedMessage))
    /\ UNCHANGED <<fn, stdoutBuffer, stderrBuffer, sink>>
    /\ ExecOnly

\* executeCommand(command, ws, input) up to its return.
ExecuteCommand ==
    /\ fn = "none"
    /\ fn' = "executeCommand"
    /\ childProcess' = [childProcess EXCEPT !.spawns = @ + 1]
    /\ UNCHANGED <<stdoutBuffer, stderrBuffer, promise, sink>>
    /\ ExecOnly

\* ws.send of a log frame if ws.readyState === 1.
SendLog(data) ==
    IF sink.open
    THEN [sink EXCEPT !.frames = Append(@, [type |-> "log", data |-> data])]
    ELSE sink

\* childProcess.stdout.on('data') of executeCommand.
EcStdout(chunk) ==
    /\ fn = "executeCommand"
    /\ CanWrite
    /\ stdoutBuffer' = stdoutBuffer \o chunk
    /\ sink' = SendLog(chunk)
    /\ UNCHANGED <<fn, childProcess, stderrBuffer, promise>>
    /\ ExecOnly

\* A mutation of the stderr listener of executeCommand: the chunk is sent
\* as it came.
EcStderrPlain(chunk) ==
    /\ fn = "executeCommand"
    /\ CanWrite
    /\ stderrBuffer' = stderrBuffer \o chunk
    /\ sink' = SendLog(chunk)
    /\ UNCHANGED <<fn, childProcess, stdoutBuffer, promise>>
    /\ ExecOnly

\* childProcess.stderr.on('data') of executeCommand.
EcStderr(chunk) ==
    /\ fn = "executeCommand"
    /\ CanWrite
    /\ stderrBuffer' = stderrBuffer \o chunk
    /\ sink' = SendLog(Red(chunk))
    /\ UNCHANGED <<fn, childProcess, stdoutBuffer, promise>>
    /\ ExecOnly

\* childProcess.on('close') of executeCommand.
EcClose(code) ==
    /\ fn = "executeCommand"
    /\ CanEmit
    /\ childProcess' = Emitted(CloseEvent(code))
    /\ promise' = Settle(Fulfilled(
           IF code = 0
           THEN [success |-> TRUE, output |-> stdoutBuffer]
           ELSE [success |-> FALSE,
                 error |-> IF stderrBuffer # << >> THEN stderrBuffer
                           ELSE ExitMessage(code)]))
    /\ UNCHANGED <<fn, stdoutBuffer, stderrBuffer, sink>>
    /\ ExecOnly

\* childProcess.on('error') of executeCommand.
EcError ==
    /\ fn = "executeCommand"
    /\ CanEmit
    /\ childProcess' = Emitted(ErrorEvent)
    /\ promise' = Settle(Fulfilled([success |-> FALSE, error |-> ErrMessage]))
    /\ UNCHANGED <<fn, stdoutBuffer, stderrBuffer, sink>>
    /\ ExecOnly

\* The socket handed to executeCommand leaves the OPEN state.
SinkClose ==
    /\ fn = "executeCommand"
    /\ sink.open
    /\ sink' = [sink EXCEPT !.open = FALSE]
    /\ UNCHANGED <<fn, childProcess, stdoutBuffer, stderrBuffer, promise>>
    /\ ExecOnly

ExecNext ==
    \/ ExecPromise
    \/ \E chunk \in Chunks : EpStdout(chunk)
    \/ \E chunk \in Chunks : EpStderr(chunk)
    \/ \E code \in {0, 1} : EpClose(code)
    \/ EpError
    \/ ExecuteCommand
    \/ \E chunk \in Chunks : EcStdout(chunk)
    \/ \E chunk \in Chunks : EcStderr(chunk)
    \/ \E code \in {0, 1} : EcClose(code)
    \/ EcError
    \/ SinkClose

\* One call of execPromise or of executeCommand, and the events of the child
\* it spawned, in any order.
ExecSpec == Init /\ [][ExecNext]_vars

\* The child emits an 'error' or 'close' event.
TerminalEvent == Len(childProcess'.events) = Len(childProcess.events) + 1

\* The event that the child emits in this step.
ThisEvent == childProcess'.events[Len(childProcess'.events)]

\* The first 'error' or 'close' event of the child of execPromise is a
\* 'close' event.
EpExits ==
    /\ fn = "execPromise"
    /\ childProcess.events = << >>
    /\ TerminalEvent
    /\ ThisEvent.kind = "close"

\* C25 as the claim states it: the error's message is stderr, or stdout, as
\* they were written.
C25_AsStated ==
    /\ [](fn = "execPromise" => childProcess.spawns = 1)
    /\ [][EpExits =>
             promise' =
                 IF ThisEvent.code = 0
                 THEN Fulfilled(Trim(stdoutBuffer))
                 ELSE Rejected(
                          IF stderrBuffer # << >> THEN stderrBuffer
                          ELSE IF stdoutBuffer # << >> THEN stdoutBuffer
                          ELSE ExitMessage(ThisEvent.code))]_vars

\* C25: execPromise spawns the command once, whatever the child's events.
\* When the child exits with code 0 the promise is fulfilled with stdout
\* trimmed; when it exits with another code the promise is rejected with an
\* error whose message is, trimmed of white space at both ends, stderr if
\* stderr is not empty, otherwise stdout if stdout is not empty, otherwise
\* 'Command exited with code N'.
C25_ExecPromiseOutcome ==
    /\ [](fn = "execPromise" => childProcess.spawns = 1)
    /\ [][EpExits =>
             promise' =
                 IF ThisEvent.code = 0
                 THEN Fulfilled(Trim(stdoutBuffer))
                 ELSE Rejected(Trim(
                          IF stderrBuffer # << >> THEN stderrBuffer
                          ELSE IF stdoutBuffer # << >> THEN stdoutBuffer
                          ELSE ExitMessage(ThisEvent.code)))]_vars

\* The child wrote to both streams, stderr ending in white space, and exited
\* with a nonzero code: the message is stderr without that white space.
C25_Witness ==
    /\ fn = "execPromise"
    /\ childProcess.events = <<CloseEvent(1)>>
    /\ stdoutBuffer = <<"a">>
    /\ stderrBuffer = <<"a", " ">>
    /\ promise = Rejected(<<"a">>)

\* What the first 'error' or 'close' event makes of the promise.  No chunk
\* comes after a 'close' event, and an 'error' event's outcome uses none.
FirstOutcome ==
    LET e == childProcess.events[1]
    IN  IF fn = "execPromise"
        THEN IF e.kind = "error" THEN Rejected(FailedMessage)
             ELSE IF e.code = 0 THEN Fulfilled(Trim(stdoutBuffer))
             ELSE Rejected(Trim(
                      IF stderrBuffer # << >> THEN stderrBuffer
                      ELSE IF stdoutBuffer # << >> THEN stdoutBuffer
                      ELSE ExitMessage(e.code)))
        ELSE Fulfilled(
                 IF e.kind = "error"
                 THEN [success |-> FALSE, error |-> ErrMessage]
                 ELSE IF e.code = 0
                 THEN [success |-> TRUE, output |-> stdoutBuffer]
                 ELSE [success |-> FALSE,
                       error |-> IF stderrBuffer # << >> THEN stderrBuffer
                                 ELSE ExitMessage(e.code)])

\* C26: the promise of execPromise and of executeCommand is pending until
\* the child's first 'error' or 'close' event, is settled by that event with
\* the outcome of that event, and never changes afterwards, whatever events
\* follow.
C26_SettlesOnce ==
    /\ [](fn # "none" =>
            /\ promise.state = "pending" <=> childProcess.events = << >>
            /\ childProcess.events # << >> => promise = FirstOutcome)
    /\ [][promise.state # "pending" => promise' = promise]_vars

\* A spawn failure: an 'error' event, then a 'close' event, and the promise
\* has the outcome of the 'error' event.
C26_Witness ==
    /\ fn # "none"
    /\ childProcess.events = <<ErrorEvent, CloseEvent(1)>>
    /\ promise.state # "pending"
    /\ promise = FirstOutcome

\* A chunk arrives on the child's stdout.
StdoutChunk == stdoutBuffer' # stdoutBuffer

\* A chunk arrives on the child's stderr.
StderrChunk == stderrBuffer' # stderrBuffer

\* The chunk that arrives in this step.
ThisChunk ==
    IF StdoutChunk
    THEN SubSeq(stdoutBuffer', Len(stdoutBuffer) + 1, Len(stdoutBuffer'))
    ELSE SubSeq(stderrBuffer', Len(stderrBuffer) + 1, Len(stderrBuffer'))

\* executeCommand forwards each chunk while the socket is open, and its
\* promise is never rejected.
EcForwards ==
    /\ [](fn = "executeCommand" => promise.state # "rejected")
    /\ [][(fn = "executeCommand" /\ (StdoutChunk \/ StderrChunk)) =>
             sink'.frames =
                 IF ~sink.open THEN sink.frames
                 ELSE Append(sink.frames,
                             [type |-> "log",
                              data |-> IF StdoutChunk THEN ThisChunk
                                       ELSE Red(ThisChunk)])]_vars

\* The first 'error' or 'close' event of the child of executeCommand.
EcEnds ==
    /\ fn = "executeCommand"
    /\ childProcess.events = << >>
    /\ TerminalEvent

\* C27 as the claim states it: after a spawn error too, the error is the
\* accumulated stderr or, if stderr is empty, an exit-code message.
C27_AsStated ==
    /\ EcForwards
    /\ [][EcEnds =>
             /\ promise'.state = "fulfilled"
             /\ IF ThisEvent.kind = "close" /\ ThisEvent.code = 0
                THEN promise'.value =
                         [success |-> TRUE, output |-> stdoutBuffer]
                ELSE /\ promise'.value.success = FALSE
                     /\ IF stderrBuffer # << >>
                        THEN promise'.value.error = stderrBuffer
                        ELSE \E code \in {-1, 1} :
                                 promise'.value.error = ExitMessage(code)]_vars

\* C27: executeCommand never rejects; it forwards every stdout chunk as a
\* log frame and every stderr chunk as a log frame with the error marker, in
\* arrival order, while the socket is open; it resolves {success: true,
\* output} on exit code 0, {success: false, error} on a nonzero exit, where
\* error is the accumulated stderr or, if stderr is empty, the exit-code
\* message, and {success: false, error} on a spawn error, where error is the
\* message of the spawn error.
C27_ExecuteCommandOutcome ==
    /\ EcForwards
    /\ [][EcEnds =>
             /\ promise'.state = "fulfilled"
             /\ IF ThisEvent.kind = "error"
                THEN promise'.value = [success |-> FALSE, error |-> ErrMessage]
                ELSE IF ThisEvent.code = 0
                THEN promise'.value =
                         [success |-> TRUE, output |-> stdoutBuffer]
                ELSE promise'.value =
                         [success |-> FALSE,
                          error |-> IF stderrBuffer # << >> THEN stderrBuffer
                                    ELSE ExitMessage(ThisEvent.code)]]_vars

\* A stdout chunk and a stderr chunk were forwarded in that order, a second
\* stderr chunk came after the socket had closed, and the child exited with
\* a nonzero code: the error is all of stderr.
C27_Witness ==
    /\ fn = "executeCommand"
    /\ ~sink.open
    /\ sink.frames = <<[type |-> "log", data |-> <<"a">>],
                       [type |-> "log", data |-> Red(<<" ">>)]>>
    /\ stderrBuffer = <<" ", "a">>
    /\ childProcess.events = <<CloseEvent(1)>>
    /\ promise = Fulfilled([success |-> FALSE, error |-> stderrBuffer])

----------------------------------------------------------------------------
\* utils/kubectlUtils.js: executeCommandWithRetry.  An attempt is one call
\* of executeCommand, taken here by the value its promise resolves with.

\* The largest value of the argument retries.
MaxAttempts == 3

\* The values one attempt can resolve with.
AttemptResults ==
    {[success |-> TRUE, output |-> <<"a">>],
     [success |-> TRUE, output |-> << >>],
     [success |-> FALSE, error |-> ErrMessage],
     [success |-> FALSE, error |-> ExitMessage(1)]}

\* `Command failed after ${retries} attempts: ${command}`.
RetriesFailed(retries) ==
    [success |-> FALSE,
     error |-> <<"Command failed after ", ToString(retries), " attempts">>]

RetryOnly ==
    /\ UtilOnly
    /\ UNCHANGED <<cacheVars, execVars, parsed, generated, route, creds>>

\* The head of the loop: the next attempt starts if i < retries, and the
\* function returns the failure otherwise.
LoopHead(r) ==
    IF r.i < r.retries
    THEN [r EXCEPT !.pc = "attempt"]
    ELSE [r EXCEPT !.pc = "returned", !.result = RetriesFailed(r.retries)]

\* executeCommandWithRetry(command, ws, retries, delay) up to its first
\* await.
ExecuteCommandWithRetry(retries) ==
    /\ retry.pc = "idle"
    /\ retry' = LoopHead([retry EXCEPT !.retries = retries])
    /\ RetryOnly

\* The promise of the attempt resolves with result: the function returns it
\* if it is a success, and otherwise sends the notice if the socket is open
\* and starts the timer.
AttemptDone(result) ==
    /\ retry.pc = "attempt"
    /\ retry' =
           IF result.success
           THEN [retry EXCEPT !.results = Append(@, result),
                              !.pc = "returned",
                              !.result = result]
           ELSE [retry EXCEPT !.results = Append(@, result),
                              !.notices = IF retry.open THEN @ + 1 ELSE @,
                              !.pc = "delay"]
    /\ RetryOnly

\* A mutation of the loop: one more attempt than retries.
RetryDelayDoneOneMore ==
    /\ retry.pc = "delay"
    /\ retry' =
           LET r == [retry EXCEPT !.delays = @ + 1, !.i = @ + 1]
           IN  IF r.i <= r.retries
               THEN [r EXCEPT !.pc = "attempt"]
               ELSE [r EXCEPT !.pc = "returned",
                              !.result = RetriesFailed(r.retries)]
    /\ RetryOnly

\* The timer of the delay fires: i++ and the head of the loop.
RetryDelayDone ==
    /\ retry.pc = "delay"
    /\ retry' = LoopHead([retry EXCEPT !.delays = @ + 1, !.i = @ + 1])
    /\ RetryOnly

\* The socket handed to executeCommandWithRetry leaves the OPEN state.
RetrySinkClose ==
    /\ retry.open
    /\ retry' = [retry EXCEPT !.open = FALSE]
    /\ RetryOnly

RetryNext ==
    \/ \E retries \in 0..MaxAttempts : ExecuteCommandWithRetry(retries)
    \/ \E result \in AttemptResults : AttemptDone(result)
    \/ RetryDelayDone
    \/ RetrySinkClose

\* One call of executeCommandWithRetry; every attempt ends and every timer
\* fires.
RetrySpec ==
    /\ Init
    /\ [][RetryNext]_vars
    /\ WF_vars(\E result \in AttemptResults : AttemptDone(result))
    /\ WF_vars(RetryDelayDone)

\* The attempts that failed.
FailedAttempts == {k \in DOMAIN retry.results : ~retry.results[k].success}

\* C28: executeCommandWithRetry makes at most retries attempts, makes none
\* after an attempt that succeeded and returns the result of that attempt,
\* returns a failure only when retries attempts were made and all failed,
\* and, as every attempt ends, returns.
C28_RetryBounded ==
    /\ [](/\ Len(retry.results) <= retry.retries
          /\ \A k \in DOMAIN retry.results :
               retry.results[k].success =>
                   /\ k = Len(retry.results)
                   /\ retry.pc = "returned"
                   /\ retry.result = retry.results[k]
          /\ (retry.pc = "returned" /\ ~retry.result.success) =>
                 /\ Len(retry.results) = retry.retries
                 /\ FailedAttempts = DOMAIN retry.results)
    /\ (retry.pc # "idle") ~> (retry.pc = "returned")

\* Two attempts failed and the third succeeded: its result is returned.
C28_Witness ==
    /\ retry.pc = "returned"
    /\ retry.retries = 3
    /\ Len(retry.results) = 3
    /\ FailedAttempts = {1, 2}
    /\ retry.result = [success |-> TRUE, output |-> <<"a">>]

\* C29 as the claim states it: when all N attempts fail and the socket
\* stays open, N-1 notices are sent and N-1 delays are waited before the
\* failure is returned.
C29_AsStated ==
    (/\ retry.pc = "returned"
     /\ retry.retries > 0
     /\ retry.open
     /\ FailedAttempts = 1..retry.retries) =>
        /\ retry.notices = retry.retries - 1
        /\ retry.delays = retry.retries - 1

----------------------------------------------------------------------------
\* utils/kubectlUtils.js: parseAndHandleJson.  A text is a sequence of
\* characters: the four brackets, "0" for a JSON scalar, " " for white
\* space and "x" for a letter of a banner or of a log line.

\* The length of the longest text parsed.
MaxLen == 5

Tokens == {"{", "}", "[", "]", "0", " ", "x"}

Texts == UNION {[1..n -> Tokens] : n \in 0..MaxLen}

\* The context arguments: absent, or a description.
Contexts == {"undefined", "kubectl get pods"}

\* context = 'JSON parsing' by default.
Named(context) == IF context = "undefined" THEN "JSON parsing" ELSE context

Least(S) == CHOOSE i \in S : \A j \in S : i <= j

Greatest(S) == CHOOSE i \in S : \A j \in S : j <= i

\* The bracket that closes an opening bracket.
Closer(c) == IF c = "{" THEN "}" ELSE "]"

\* Where a match of /(\{[\s\S]*\}|\[[\s\S]*\])/ can start: at a '{' with a
\* '}' after it, or at a '[' with a ']' after it.
MatchStarts(str) ==
    {i \in DOMAIN str :
        /\ str[i] \in {"{", "["}
        /\ \E j \in DOMAIN str : j > i /\ str[j] = Closer(str[i])}

\* A mutation of the regular expression: lazy quantifiers, so that the match
\* ends at the first closing bracket.
JsonMatchLazy(str) ==
    IF MatchStarts(str) = {} THEN << >>
    ELSE LET i == Least(MatchStarts(str))
             j == Least({k \in DOMAIN str :
                            k > i /\ str[k] = Closer(str[i])})
         IN  SubSeq(str, i, j)

\* str.match(/(\{[\s\S]*\}|\[[\s\S]*\])/): the leftmost match, which runs to
\* the last closing bracket of its kind; << >> for no match.
JsonMatch(str) ==
    IF MatchStarts(str) = {} THEN << >>
    ELSE LET i == Least(MatchStarts(str))
             j == Greatest({k \in DOMAIN str :
                               k > i /\ str[k] = Closer(str[i])})
         IN  SubSeq(str, i, j)

\* A text without its white space.
Strip(str) == SelectSeq(str, LAMBDA c : c # " ")

\* The JSON texts without white space over these characters, nested up to
\* depth d: a scalar, an empty object, an empty array, or an array of one
\* such text.
RECURSIVE JsonTexts(_)
JsonTexts(d) ==
    IF d = 0 THEN {<<"0">>, <<"{", "}">>, <<"[", "]">>}
    ELSE JsonTexts(d - 1) \cup
         {<<"[">> \o v \o <<"]">> : v \in JsonTexts(d - 1)}

\* JSON.parse accepts these texts, with white space between their tokens.
ValidJson(str) == Strip(str) \in JsonTexts(Len(str))

\* The value JSON.parse returns, written without white space.
JsonValue(str) == Strip(str)

\* What parseAndHandleJson returns or throws.
ParseOutcome(jsonString, context) ==
    LET jsonMatch == JsonMatch(Trim(jsonString))
    IN  IF jsonMatch = << >>
        THEN [ok |-> FALSE, value |-> << >>,
              error |-> "No valid JSON structure found for",
              context |-> Named(context)]
        ELSE IF ValidJson(jsonMatch)
        THEN [ok |-> TRUE, value |-> JsonValue(jsonMatch), error |-> "",
              context |-> ""]
        ELSE [ok |-> FALSE, value |-> << >>,
              error |-> "Failed to parse as JSON",
              context |-> Named(context)]

ParseOnly ==
    /\ UtilOnly
    /\ UNCHANGED <<cacheVars, execVars, retry, generated, route, creds>>

\* One call of parseAndHandleJson.
ParseAndHandleJson(jsonString, context) ==
    /\ parsed = NoParse
    /\ parsed' = [jsonString |-> jsonString, context |-> context,
                  outcome |-> ParseOutcome(jsonString, context)]
    /\ ParseOnly

ParseNext ==
    /\ parsed = NoParse
    /\ \E jsonString \in Texts, context \in Contexts :
           ParseAndHandleJson(jsonString, context)

\* A call of parseAndHandleJson on any text.
ParseSpec == Init /\ [][ParseNext]_vars

BracketFree(str) ==
    \A i \in DOMAIN str : str[i] \notin {"{", "}", "[", "]"}

\* A JSON object or array, with or without white space.
JsonDocument(str) ==
    /\ Strip(str) # << >>
    /\ Head(Strip(str)) \in {"{", "["}
    /\ ValidJson(str)

\* The text has a '{' before a '}' or a '[' before a ']'.
HasBracketPair(str) ==
    \E i, j \in DOMAIN str :
        /\ i < j
        /\ \/ str[i] = "{" /\ str[j] = "}"
           \/ str[i] = "[" /\ str[j] = "]"

\* C30: parseAndHandleJson returns the parsed value of a JSON object or
\* array that stands in the input between texts without brackets; it fails
\* with an error that names the context when the input has no '{'...'}' and
\* no '['...']', and when the text it extracted is not valid JSON.
C30_ParseExtractsJson ==
    parsed # NoParse =>
        LET str == parsed.jsonString
            out == parsed.outcome
        IN  /\ \A i, j \in DOMAIN str :
                  (/\ i < j
                   /\ BracketFree(SubSeq(str, 1, i - 1))
                   /\ BracketFree(SubSeq(str, j + 1, Len(str)))
                   /\ JsonDocument(SubSeq(str, i, j))) =>
                      /\ out.ok
                      /\ out.value = JsonValue(SubSeq(str, i, j))
            /\ ~HasBracketPair(str) =>
                  /\ ~out.ok
                  /\ out.error = "No valid JSON structure found for"
                  /\ out.context = Named(parsed.context)
            /\ (HasBracketPair(str) /\ ~ValidJson(JsonMatch(Trim(str)))) =>
                  /\ ~out.ok
                  /\ out.error = "Failed to parse as JSON"
                  /\ out.context = Named(parsed.context)

\* A nested array between a banner and a trailing line was parsed.
C30_Witness ==
    /\ parsed.jsonString = <<"x", "[", "[", "]", "]">>
    /\ parsed.outcome.ok
    /\ parsed.outcome.value = <<"[", "[", "]", "]">>

----------------------------------------------------------------------------
\* utils/eksConfigGenerator.js and the lines of the create branch that use
\* the cluster name.  A name is a sequence of characters: "a" for a
\* lower-case letter, "A" for an upper-case one, " " for white space.  The
\* YAML text is the sequence of its lines, each a key and a value.

\* The length of the longest cluster name.
MaxName == 3

Names == UNION {[1..n -> {"a", "A", " "}] : n \in 0..MaxName}

\* The values of a flag of the payload: absent, or a boolean.
Flags == {"undefined", "false", "true"}

Payloads ==
    [clusterName : Names, enableSsh : Flags, sshKeyName : {"", "key"},
     enableEbsCsiAccess : Flags, enableEfsCsiAccess : Flags]

\* The rest of a text after its leading white space.
RECURSIVE SkipSpace(_)
SkipSpace(str) ==
    IF str # << >> /\ Head(str) = " " THEN SkipSpace(Tail(str)) ELSE str

\* payload.clusterName.replace(/\s+/g, '-').toLowerCase().
RECURSIVE Normalise(_)
Normalise(str) ==
    IF str = << >> THEN << >>
    ELSE IF Head(str) = " " THEN <<"-">> \o Normalise(SkipSpace(str))
    ELSE <<IF Head(str) = "A" THEN "a" ELSE Head(str)>> \o
         Normalise(Tail(str))

Line(key, value) == [key |-> key, value |-> value]

\* A mutation of the generator: the EBS CSI add-on is always listed.
GenerateEbsAlways(config) ==
    <<Line("apiVersion", <<"eksctl.io/v1alpha5">>),
      Line("kind", <<"ClusterConfig">>),
      Line("metadata.name", config.clusterName),
      Line("iam.withOIDC", <<"true">>),
      Line("managedNodeGroups.ssh.allow",
           <<IF config.enableSsh = "true" THEN "true" ELSE "false">>)>>
    \o (IF Truthy(config.enableSsh) /\ config.sshKeyName # ""
        THEN <<Line("managedNodeGroups.ssh.publicKeyName",
                    <<config.sshKeyName>>)>>
        ELSE << >>)
    \o <<Line("addons", << >>)>>
    \o <<Line("addons.name", <<"aws-ebs-csi-driver">>),
         Line("addons.wellKnownPolicies.ebsCSIController", <<"true">>)>>
    \o (IF Truthy(config.enableEfsCsiAccess)
        THEN <<Line("addons.name", <<"aws-efs-csi-driver">>),
               Line("addons.wellKnownPolicies.efsCSIController", <<"true">>)>>
        ELSE << >>)
    \o <<Line("addons.name", <<"vpc-cni">>)>>

\* generateEksClusterConfig(config): the lines of the YAML text it returns.
GenerateEksClusterConfig(config) ==
    <<Line("apiVersion", <<"eksctl.io/v1alpha5">>),
      Line("kind", <<"ClusterConfig">>),
      Line("metadata.name", config.clusterName),
      Line("iam.withOIDC", <<"true">>),
      Line("managedNodeGroups.ssh.allow",
           <<IF config.enableSsh = "true" THEN "true" ELSE "false">>)>>
    \o (IF Truthy(config.enableSsh) /\ config.sshKeyName # ""
        THEN <<Line("managedNodeGroups.ssh.publicKeyName",
                    <<config.sshKeyName>>)>>
        ELSE << >>)
    \o <<Line("addons", << >>)>>
    \o (IF Truthy(config.enableEbsCsiAccess)
        THEN <<Line("addons.name", <<"aws-ebs-csi-driver">>),
               Line("addons.wellKnownPolicies.ebsCSIController", <<"true">>)>>
        ELSE << >>)
    \o (IF Truthy(config.enableEfsCsiAccess)
        THEN <<Line("addons.name", <<"aws-efs-csi-driver">>),
               Line("addons.wellKnownPolicies.efsCSIController", <<"true">>)>>
        ELSE << >>)
    \o <<Line("addons.name", <<"vpc-cni">>)>>

ConfigOnly ==
    /\ UtilOnly
    /\ UNCHANGED <<cacheVars, execVars, retry, parsed, route, creds>>

\* The create branch for one payload: the name used in the frames and in
\* the existence check, and the configuration written to eksctl's stdin.
CreatePayload(payload) ==
    /\ ~generated.called
    /\ generated' = [called |-> TRUE,
                     payload |-> payload,
                     clusterName |-> Normalise(payload.clusterName),
                     yamlConfig |-> GenerateEksClusterConfig(payload)]
    /\ ConfigOnly

ConfigNext ==
    /\ ~generated.called
    /\ \E payload \in Payloads : CreatePayload(payload)

\* One create payload, of any content.
ConfigSpec == Init /\ [][ConfigNext]_vars

\* The values of the lines of the configuration that have this key.
ConfigValues(key) ==
    {generated.yamlConfig[i].value :
        i \in {j \in DOMAIN generated.yamlConfig :
                  generated.yamlConfig[j].key = key}}

\* C31: the generated configuration sets iam.withOIDC to true, has no
\* service-account definition, lists the vpc-cni add-on, and lists the EBS
\* and the EFS CSI add-on exactly when the payload's flag for it is set.
C31_ConfigShape ==
    generated.called =>
        /\ ConfigValues("iam.withOIDC") = {<<"true">>}
        /\ ConfigValues("iam.serviceAccounts") = {}
        /\ <<"vpc-cni">> \in ConfigValues("addons.name")
        /\ <<"aws-ebs-csi-driver">> \in ConfigValues("addons.name") <=>
               generated.payload.enableEbsCsiAccess = "true"
        /\ <<"aws-efs-csi-driver">> \in ConfigValues("addons.name") <=>
               generated.payload.enableEfsCsiAccess = "true"

\* A payload with the EBS flag set and the EFS flag absent: two add-ons.
C31_Witness ==
    /\ generated.called
    /\ generated.payload.enableEbsCsiAccess = "true"
    /\ generated.payload.enableEfsCsiAccess = "undefined"
    /\ ConfigValues("addons.name") =
           {<<"aws-ebs-csi-driver">>, <<"vpc-cni">>}

\* C38: the name in the generated configuration is the name used for the
\* existence check and in the frames.
C38_SameNameEverywhere ==
    generated.called =>
        ConfigValues("metadata.name") = {generated.clusterName}

----------------------------------------------------------------------------
\* routes/kubernetesRoutes.js: GET /kube-pods, in front of which the cache
\* stands, and POST /kube-create-pod and DELETE /kube-delete-pod, which
\* change what it lists.  The pod list of a namespace is "v1" or "v2".

\* The number of GET /kube-pods requests in a run.
MaxList == 2

\* CACHE_TTLS.PODS, in units of the clock (15 seconds each).
PodsTtl == 2

\* request.query.namespace and request.body.namespace: absent, or a name.
NamespaceArgs == {"undefined", "dev"}

\* request.query.namespace || 'default'.
NamespaceOf(arg) == IF arg = "undefined" THEN "default" ELSE arg

\* request.query.forceRefresh: absent, or a string of the query, which is
\* truthy whatever it says.
QueryForce == {"undefined", "'false'"}

\* `pods-list-${namespace}`.
CacheKey(namespace) == <<"pods-list-", namespace>>

\* What the CLI call and the parsing of its output come to.
FetchOutcomes == {"ok", "command failed", "not JSON"}

\* The cache after setCacheData(key, data).
Stored(key, data) ==
    [k \in DOMAIN cache \cup {key} |->
        IF k = key THEN [data |-> data, timestamp |-> now] ELSE cache[k]]

ListReq(arg, forceRefresh, pc, cli, status, body) ==
    [namespace |-> NamespaceOf(arg), forceRefresh |-> forceRefresh, pc |-> pc,
     cli |-> cli, status |-> status, body |-> body]

RouteOnly ==
    /\ UtilOnly
    /\ UNCHANGED <<execVars, retry, parsed, generated, creds>>

\* GET /kube-pods up to its answer from the cache or to the await of the
\* CLI call.
ListPods(arg, forceRefresh) ==
    /\ Len(route.reqs) < MaxList
    /\ LET cachedData ==
               Lookup(CacheKey(NamespaceOf(arg)), PodsTtl, forceRefresh)
       IN  route' =
               [route EXCEPT !.reqs = Append(@,
                    IF cachedData # Null
                    THEN ListReq(arg, forceRefresh, "done", FALSE, 200,
                                 cachedData)
                    ELSE ListReq(arg, forceRefresh, "fetching", TRUE, 0,
                                 Null))]
    /\ UNCHANGED <<cacheVars>>
    /\ RouteOnly

\* A mutation of the catch block: a failed fetch removes the entry.
ListFetchedDropsOnFailure(r, outcome) ==
    /\ r \in DOMAIN route.reqs
    /\ route.reqs[r].pc = "fetching"
    /\ LET namespace == route.reqs[r].namespace
           items == route.pods[namespace]
       IN  IF outcome = "ok"
           THEN /\ cache' = Stored(CacheKey(namespace), items)
                /\ route' = [route EXCEPT !.reqs[r].pc = "done",
                                          !.reqs[r].status = 200,
                                          !.reqs[r].body = items]
           ELSE /\ cache' = Without(CacheKey(namespace))
                /\ route' = [route EXCEPT !.reqs[r].pc = "done",
                                          !.reqs[r].status = 500]
    /\ UNCHANGED <<now, got>>
    /\ RouteOnly

\* GET /kube-pods after the await: the result is stored and sent, or the
\* catch block answers 500.
ListFetched(r, outcome) ==
    /\ r \in DOMAIN route.reqs
    /\ route.reqs[r].pc = "fetching"
    /\ LET namespace == route.reqs[r].namespace
           items == route.pods[namespace]
       IN  IF outcome = "ok"
           THEN /\ cache' = Stored(CacheKey(namespace), items)
                /\ route' = [route EXCEPT !.reqs[r].pc = "done",
                                          !.reqs[r].status = 200,
                                          !.reqs[r].body = items]
           ELSE /\ cache' = cache
                /\ route' = [route EXCEPT !.reqs[r].pc = "done",
                                          !.reqs[r].status = 500]
    /\ UNCHANGED <<now, got>>
    /\ RouteOnly

\* The pod list after a pod was created or deleted.
Changed(items) == IF items = "v1" THEN "v2" ELSE "v1"

\* A mutation of the pod endpoints: a pod created or deleted invalidates
\* the cached list of its namespace.
MutatePodsInvalidates(arg, ok) ==
    /\ route' = IF ok
                THEN [route EXCEPT !.pods[NamespaceOf(arg)] = Changed(@)]
                ELSE route
    /\ cache' = IF ok THEN Without(CacheKey(NamespaceOf(arg))) ELSE cache
    /\ UNCHANGED <<now, got>>
    /\ RouteOnly

\* POST /kube-create-pod and DELETE /kube-delete-pod, whose kubectl call
\* succeeds (ok) or fails.
MutatePods(arg, ok) ==
    /\ route' = IF ok
                THEN [route EXCEPT !.pods[NamespaceOf(arg)] = Changed(@)]
                ELSE route
    /\ UNCHANGED <<cacheVars>>
    /\ RouteOnly

RouteNext ==
    \/ \E arg \in NamespaceArgs, forceRefresh \in QueryForce :
           ListPods(arg, forceRefresh)
    \/ \E r \in 1..MaxList, outcome \in FetchOutcomes : ListFetched(r, outcome)
    \/ \E arg \in NamespaceArgs, ok \in BOOLEAN : MutatePods(arg, ok)
    \/ Tick

\* The requests to the three pod endpoints, as time passes.
RouteSpec == Init /\ [][RouteNext]_vars

\* A GET /kube-pods request arrives.
ListArrives == Len(route.reqs') = Len(route.reqs) + 1

\* The request that arrives in this step.
NewList == route.reqs'[Len(route.reqs')]

\* The cache holds a fresh entry for the request that arrives, which does
\* not force a refresh.
FreshHit ==
    /\ CacheKey(NewList.namespace) \in DOMAIN cache
    /\ NewList.forceRefresh = "undefined"
    /\ now - cache[CacheKey(NewList.namespace)].timestamp <= PodsTtl

\* C32: a request that finds a fresh entry is answered with it and invokes
\* no CLI; any other request invokes the CLI; the result is stored, under
\* the key of the request and with the current time, only when the fetch
\* succeeded, and a failed fetch leaves the cache as it was.
C32_FetchStoresOnSuccessOnly ==
    [][/\ ListArrives =>
            /\ cache' = cache
            /\ IF FreshHit
               THEN NewList = [namespace |-> NewList.namespace,
                               forceRefresh |-> NewList.forceRefresh,
                               pc |-> "done", cli |-> FALSE, status |-> 200,
                               body |-> cache[CacheKey(NewList.namespace)].data]
               ELSE NewList.cli /\ NewList.pc = "fetching"
       /\ \A r \in DOMAIN route.reqs :
            (route.reqs[r].pc = "fetching" /\ route.reqs'[r].pc = "done") =>
                IF route.reqs'[r].status = 200
                THEN cache' = Stored(CacheKey(route.reqs[r].namespace),
                                     route.reqs'[r].body)
                ELSE cache' = cache]_vars

\* A fetch stored the list; a later request found the entry stale, invoked
\* the CLI and failed: the entry is as the first fetch left it.
C32_Witness ==
    /\ Len(route.reqs) = 2
    /\ route.reqs[1].status = 200
    /\ route.reqs[1].cli
    /\ route.reqs[2].status = 500
    /\ route.reqs[2].namespace = route.reqs[1].namespace
    /\ route.reqs[2].forceRefresh = "undefined"
    /\ cache[CacheKey(route.reqs[1].namespace)] =
           [data |-> route.reqs[1].body, timestamp |-> 0]

\* C39: creating or deleting a pod leaves the cache as it is, so that a list
\* request within the TTL and without forceRefresh is answered, before and
\* after, with the list that was cached.
C39_MutationLeavesCache ==
    [][route.pods' # route.pods =>
          /\ cache' = cache
          /\ \A arg \in NamespaceArgs :
               Lookup(CacheKey(NamespaceOf(arg)), PodsTtl, "undefined")' =
                   Lookup(CacheKey(NamespaceOf(arg)), PodsTtl, "undefined")]_vars

\* A list request after a pod was created or deleted was answered from the
\* cache with the list as it was before.
C39_Witness ==
    \E r \in DOMAIN route.reqs :
        /\ route.reqs[r].pc = "done"
        /\ ~route.reqs[r].cli
        /\ route.reqs[r].status = 200
        /\ route.reqs[r].body # route.pods[route.reqs[r].namespace]
        /\ r = 2
        /\ route.reqs[1].body = route.reqs[2].body

----------------------------------------------------------------------------
\* routes/kubernetesRoutes.js: POST /eks-clear-credentials.  creds.cleared
\* is the set of keys that `aws configure set <key> ""` has emptied.

unsetKeys ==
    <<"aws_access_key_id", "aws_secret_access_key", "default.region",
      "default.output">>

\* What one `aws configure set` comes to: it succeeds, or execPromise
\* rejects with one of two messages.
ClearOutcomes == {"ok", "exit 255", "spawn ENOENT"}

\* `Failed to clear ${key}: ${e.message}`.
FailedToClear(key, message) == <<"Failed to clear ", key, ": ", message>>

CredsOnly ==
    /\ UtilOnly
    /\ UNCHANGED <<cacheVars, execVars, retry, parsed, generated, route>>

\* The handler up to the await of the first `aws configure set`.
ClearCredentials ==
    /\ creds.pc = "idle"
    /\ creds' = [creds EXCEPT !.pc = "clearing"]
    /\ CredsOnly

\* The errorMessages and the status after the clear of unsetKeys[creds.i]
\* came to the outcome.
Pushed(outcome) ==
    IF outcome = "ok"
    THEN creds.errorMessages
    ELSE Append(creds.errorMessages, FailedToClear(unsetKeys[creds.i], outcome))

\* A mutation of the loop: the first failure ends it.
ClearDoneStopsAtFailure(outcome) ==
    /\ creds.pc = "clearing"
    /\ LET last == creds.i = Len(unsetKeys) \/ outcome # "ok"
       IN  creds' =
               [pc |-> IF last THEN "done" ELSE "clearing",
                i |-> creds.i + 1,
                errorMessages |-> Pushed(outcome),
                cleared |-> IF outcome = "ok"
                            THEN creds.cleared \cup {unsetKeys[creds.i]}
                            ELSE creds.cleared,
                status |-> IF ~last THEN 0
                           ELSE IF Len(Pushed(outcome)) > 0 THEN 500 ELSE 200]
    /\ CredsOnly

\* One await of the loop returns or throws; after the last one the handler
\* responds.
ClearDone(outcome) ==
    /\ creds.pc = "clearing"
    /\ LET last == creds.i = Len(unsetKeys)
       IN  creds' =
               [pc |-> IF last THEN "done" ELSE "clearing",
                i |-> creds.i + 1,
                errorMessages |-> Pushed(outcome),
                cleared |-> IF outcome = "ok"
                            THEN creds.cleared \cup {unsetKeys[creds.i]}
                            ELSE creds.cleared,
                status |-> IF ~last THEN 0
                           ELSE IF Len(Pushed(outcome)) > 0 THEN 500 ELSE 200]
    /\ CredsOnly

CredsNext ==
    \/ ClearCredentials
    \/ \E outcome \in ClearOutcomes : ClearDone(outcome)

\* One request to clear the credentials.
CredsSpec == Init /\ [][CredsNext]_vars

\* The keys of unsetKeys from position n on that were not cleared, in order.
RECURSIVE NotCleared(_)
NotCleared(n) ==
    IF n > Len(unsetKeys) THEN << >>
    ELSE IF unsetKeys[n] \in creds.cleared THEN NotCleared(n + 1)
    ELSE <<unsetKeys[n]>> \o NotCleared(n + 1)

\* C33: the four keys are attempted one after the other whatever the
\* earlier attempts came to, a key once cleared stays cleared, and the
\* response, sent after the fourth attempt only, is 200 exactly when all
\* four keys were cleared and otherwise 500 with one message for each key
\* that was not, in order.
C33_ClearsEachKey ==
    /\ [](/\ creds.pc = "done" <=> creds.i = Len(unsetKeys) + 1
          /\ creds.pc # "done" => creds.status = 0
          /\ creds.pc = "done" =>
               /\ creds.status = 200 <=>
                      creds.cleared = {unsetKeys[n] : n \in DOMAIN unsetKeys}
               /\ creds.status \in {200, 500}
               /\ [n \in DOMAIN creds.errorMessages |->
                      creds.errorMessages[n][2]] = NotCleared(1))
    /\ [][creds.i' # creds.i =>
             /\ creds.i' = creds.i + 1
             /\ creds.cleared \subseteq creds.cleared'
             /\ creds.cleared' \subseteq creds.cleared \cup {unsetKeys[creds.i]}]_vars

\* The first clear failed, the third too, the other two succeeded: 500 with
\* the two keys named.
C33_Witness ==
    /\ creds.pc = "done"
    /\ creds.status = 500
    /\ creds.cleared = {"aws_secret_access_key", "default.output"}
    /\ Len(creds.errorMessages) = 2
    /\ creds.errorMessages[1] =
           FailedToClear("aws_access_key_id", "exit 255")

----------------------------------------------------------------------------
\* The exited flag of a session.

\* C34: the exited flag is set only while the tracked child, if there is
\* one, is no longer running: a child spawned after an earlier child exited
\* is not taken for one that has exited.
C34_ExitedFlagIsOfTrackedChild ==
    (eksProcessExited /\ eksProcess # 0) => cmds[eksProcess].proc # "running"

----------------------------------------------------------------------------
\* The port-forward handle and the processes of earlier requests.

\* C35: an event of a process other than the one the handle names leaves
\* the handle as it is: when the process of an earlier request ends, the
\* handle still names the newer process.
C35_OldEventKeepsHandle ==
    [][\A p \in DOMAIN pfReqs :
          ( /\ pfHandle # 0
            /\ pfHandle # p
            /\ Len(pfReqs') = Len(pfReqs)
            /\ pfReqs'[p].proc # pfReqs[p].proc ) =>
                pfHandle' = pfHandle]_vars

\* C36: when the last request is a stop request, which is answered as it is
\* handled, no process spawned by the start route is running without having
\* been sent SIGTERM.
C36_StopLeavesNoneRunning ==
    (Len(pfReqs) > 0 /\ pfReqs[Len(pfReqs)].kind = "stop") => PfLive = {}

\* The port-forward routes, where every kubectl process ends at last.
PfFairSpec ==
    PfSpec /\ \A p \in 1..MaxReqs : WF_vars(p \in DOMAIN pfReqs /\ PfClose(p))

\* The start request p has received no response yet.
PfPending(p) ==
    IF p \in DOMAIN pfReqs
    THEN pfReqs[p].kind = "start" /\ pfReqs[p].reply = "pending"
    ELSE FALSE

\* C37: every start request is answered at last, whatever the process it
\* spawned does.
C37_StartIsAnswered ==
    \A p \in 1..MaxReqs : PfPending(p) ~> ~PfPending(p)
====
